---- MODULE Spec2Model ----
(***************************************************************************)
(* The wholesale-registration app proxy action: one form submission is     *)
(* turned into a chain of Admin GraphQL calls (customer, company,          *)
(* location, address, tax id, contact, role).  The remote directory        *)
(* (customers, companies) is shared state; every awaited call is one step. *)
(*                                                                         *)
(* JS strings are sequences of one-character strings, so that trim() and   *)
(* toLowerCase() are computed and not assumed.  Ids are positive integers; *)
(* 0 stands for undefined/null ids.                                        *)
(***************************************************************************)
EXTENDS Integers, Sequences, FiniteSets, TLC

VARIABLES customers, companies, pages, menus, run

vars == <<customers, companies, pages, menus, run>>

-----------------------------------------------------------------------------
(* JavaScript values *)

\* formData.get(name) of an absent field; also a null field of a remote record
NULL == <<"NULL">>

\* a form field the run has not looked at yet
Unread == <<"UNREAD">>

\* a key left out of a mutation's input object
Omitted == <<"OMITTED">>

\* a null message (customerError = null)
NoError == "null"

RECURSIVE trimStart(_)
trimStart(s) == IF s # <<>> /\ Head(s) = " " THEN trimStart(Tail(s)) ELSE s

RECURSIVE trimEnd(_)
trimEnd(s) == IF s # <<>> /\ s[Len(s)] = " " THEN trimEnd(SubSeq(s, 1, Len(s) - 1)) ELSE s

\* String.prototype.trim
trim(s) == trimEnd(trimStart(s))

lowerChar(c) ==
    CASE c = "J" -> "j" [] c = "K" -> "k" [] c = "C" -> "c" [] c = "D" -> "d"
      [] c = "A" -> "a" [] c = "B" -> "b" [] OTHER -> c

\* String.prototype.toLowerCase
toLowerCase(s) == [i \in 1..Len(s) |-> lowerChar(s[i])]

\* JS truthiness of a form value: null and "" are falsy
Truthy(s) == s # NULL /\ s # <<>>

\* the guard `x && x.trim()`
NonBlank(s) == Truthy(s) /\ trim(s) # <<>>

\* Array.prototype.includes on a sequence
includes(seq, x) == \E i \in 1..Len(seq) : seq[i] = x

\* Array.prototype.find, given the predicate's value on each element: the first
\* index where it is true, 0 if none
FindIndex(tests) ==
    IF \E i \in 1..Len(tests) : tests[i]
    THEN CHOOSE i \in 1..Len(tests) : tests[i] /\ \A j \in 1..(i - 1) : ~tests[j]
    ELSE 0

Range(seq) == {seq[i] : i \in 1..Len(seq)}

-----------------------------------------------------------------------------
(* The submitted form *)

UserEmailInputs == {NULL, <<" ", "J">>}
PhoneInputs == {NULL, <<" ">>, <<" ", "5">>}
CompanyEmailInputs == {NULL, <<" ">>, <<"C", " ">>, <<"c">>}
Address1Inputs == {NULL, <<>>, <<" ">>, <<"a", " ">>}
LocationInputs == {NULL, <<"L", " ">>}
TaxIdInputs == {NULL, <<" ", "T">>}
CountryInputs == {NULL, <<>>, <<" ">>, <<"U", " ">>}
CityInputs == {NULL, <<"P", " ">>}

\* formData.get(name): the submitted value of a field.  The request body is fixed
\* when the request arrives; a field's value is drawn where the run first sends it
\* or branches on it, and kept from then on.
get(field, inputs) == IF field = Unread THEN inputs ELSE {field}

UnreadForm ==
    [userEmail |-> Unread, phone |-> Unread, companyEmail |-> Unread,
     address1 |-> Unread, location |-> Unread, taxId |-> Unread]

\* the two versions of the proxy action: with and without the company resolver
Variants == {"resolver", "route"}

Procs == {"p1", "p2"}

-----------------------------------------------------------------------------
(* The remote directory (Admin GraphQL API): customers and companies.      *)
(* A customer's id is its index in customers, a company's its index in     *)
(* companies; both are listed in creation order.                           *)

Customer(email, phone, tags) == [email |-> email, phone |-> phone, tags |-> tags]

Metafield(namespace, key, value) == [namespace |-> namespace, key |-> key, value |-> value]

Company(metafields) == [metafields |-> metafields]

\* a node of a customers(...) query: id, email, phone, tags
CustomerNode(i) ==
    [id |-> i, email |-> customers[i].email, phone |-> customers[i].phone,
     tags |-> customers[i].tags]

\* existingCustomer / foundCustomer when nothing was found (undefined)
NoCustomer == [id |-> 0, email |-> NULL, phone |-> NULL, tags |-> <<>>]

\* the directory's own notion of "same email" (unique per customer)
SameEmail(a, b) == a # NULL /\ b # NULL /\ toLowerCase(trim(a)) = toLowerCase(trim(b))

EmailExists(email) == \E i \in 1..Len(customers) : SameEmail(customers[i].email, email)

\* the first location of a company (locations(first: 1)); one per company
FirstLocation(companyId) == companyId

\* userErrors messages of customerCreate / customerUpdate
EmailTaken == "Email has already been taken"
OtherCustomerErrors == {"Email is invalid"}
UpdateErrors == {"Phone is invalid"}

\* errorMessage.includes("Email has already been taken")
includesEmailTaken(message) == message = EmailTaken

-----------------------------------------------------------------------------
(* One run of the action *)

NoResponse == [kind |-> "none"]

NoCall == [op |-> "none"]

\* before: the directory when the request arrives; submission, written and lookups
\* are kept from one submission of a client to its next: the number of the
\* submission, the company email metafields written and the replies of the
\* companies queries so far
NewRun(variant) ==
    [pc |-> "shop", variant |-> variant, form |-> UnreadForm,
     before |-> [customers |-> customers, companies |-> companies],
     shop |-> <<>>, shopInputs |-> <<>>,
     existingCustomer |-> NoCustomer, existingCompany |-> 0,
     companyId |-> 0, locationId |-> 0,
     customerId |-> 0, customerError |-> NoError, errorMessage |-> NoError,
     foundCustomer |-> NoCustomer, companyContactId |-> 0, roleIdToAssign |-> 0,
     calls |-> <<>>, lastCall |-> NoCall, nominal |-> TRUE, taxReply |-> "none",
     submission |-> 1, written |-> <<>>, lookups |-> <<>>,
     response |-> NoResponse]

IdleRun == [NewRun("resolver") EXCEPT !.pc = "idle"]

\* admin.graphql(...): the call is appended to the run's trace.  The mutations and
\* the fallback searches record, next to their arguments, how they were answered:
\* reply is "ok", "userErrors" (a reply that carries user errors; the code treats a
\* reply with GraphQL errors alike unless said otherwise), "errors", "throw", ...
Call(r, call) == [r EXCEPT !.calls = Append(r.calls, call.op), !.lastCall = call]

\* a reply that is not the call's success (the tax call's reply is kept in taxReply)
Failed(r) == [r EXCEPT !.nominal = FALSE]

\* return json({ error, details }, { status })
ErrorResponse(r, status, error) ==
    [r EXCEPT !.pc = "done",
              !.nominal = FALSE,
              !.response = [kind |-> "error", status |-> status, error |-> error]]

\* the outer catch: return json({ error: "Internal server error", ... }, { status: 500 })
Caught(r) == ErrorResponse(r, 500, "Internal server error")

\* a message that leaves the customer error out
MessageWithoutNote(companyId, customerId, customerError) ==
    IF companyId # 0 /\ customerId # 0 THEN <<"Company and customer created successfully!">>
    ELSE IF companyId # 0 THEN <<"Company created successfully!">>
    ELSE <<"Failed to create company.">>

Message(companyId, customerId, customerError) ==
    IF companyId # 0 /\ customerId # 0 THEN <<"Company and customer created successfully!">>
    ELSE IF companyId # 0 /\ customerError # NoError
         THEN <<"Company created successfully! Note: ", customerError>>
    ELSE IF companyId # 0 THEN <<"Company created successfully!">>
    ELSE <<"Failed to create company.">>

\* success only when both ids exist
SuccessBothIds(companyId, customerId, customerError) == companyId # 0 /\ customerId # 0

Success(companyId, customerId, customerError) ==
    IF companyId # 0 /\ customerId # 0 THEN TRUE
    ELSE IF companyId # 0 /\ customerError # NoError THEN TRUE
    ELSE IF companyId # 0 THEN TRUE
    ELSE FALSE

\* result aggregation and return json({ success, companyId, customerId, message, customerError })
Respond(r) ==
    [r EXCEPT !.pc = "done",
              !.response = [kind |-> "result", status |-> 200,
                            success |-> Success(r.companyId, r.customerId, r.customerError),
                            companyId |-> r.companyId, customerId |-> r.customerId,
                            message |-> Message(r.companyId, r.customerId, r.customerError),
                            customerError |-> r.customerError]]

-----------------------------------------------------------------------------
(* Control flow between the awaited calls.  Each operator takes the run    *)
(* after one call and leads it, through the code's guards and local        *)
(* assignments, to the next call (or to the response).  The result is a    *)
(* set of runs: one for each value of the form fields read on the way.     *)

\* a link step that assigns every new customer explicitly
ToLinkAlwaysExplicit(r) ==
    IF r.companyId # 0 /\ r.customerId # 0
    THEN IF r.existingCustomer.id # 0 THEN {[r EXCEPT !.pc = "assignContact"]}
         ELSE {[r EXCEPT !.pc = "assignNewContact"]}
    ELSE {Respond(r)}

\* "Only try to assign if both IDs exist": branches 3a, 3b, 3c
ToLink(r) ==
    IF r.companyId # 0 /\ r.customerId # 0
    THEN IF r.existingCustomer.id # 0 THEN {[r EXCEPT !.pc = "assignContact"]}
         ELSE IF r.variant = "resolver" /\ r.existingCompany # 0
              THEN {[r EXCEPT !.pc = "assignNewContact"]}
         ELSE {Respond(r)}
    ELSE {Respond(r)}

\* "2. Handle customer creation or use existing customer"
ToCustomer(r) ==
    IF r.existingCustomer.id # 0
    THEN ToLink([r EXCEPT !.customerId = r.existingCustomer.id])
    ELSE {[r EXCEPT !.pc = "customerCreate"]}

\* "Set TAX ID if provided in the form"
ToTax(r) ==
    UNION {LET r1 == [r EXCEPT !.form.taxId = taxId]
           IN  IF NonBlank(taxId) THEN {[r1 EXCEPT !.pc = "tax"]} ELSE ToCustomer(r1)
           : taxId \in get(r.form.taxId, TaxIdInputs)}

\* (formData.get("location") || "").trim()
locationNameFromForm(location) == trim(IF Truthy(location) THEN location ELSE <<>>)

\* "Update location name if provided in form"
ToRename(r) ==
    {LET r1 == [r EXCEPT !.form.location = location]
     IN  IF locationNameFromForm(location) # <<>>
         THEN [r1 EXCEPT !.pc = "renameLocation"]
         ELSE [r1 EXCEPT !.pc = "assignAddress"]
     : location \in get(r.form.location, LocationInputs)}

\* the address block entered for any non-empty address1
ToAddressTruthy(r) ==
    IF r.companyId # 0
    THEN UNION {LET r1 == [r EXCEPT !.form.address1 = address1]
                IN  IF Truthy(address1) THEN {[r1 EXCEPT !.pc = "getLocation"]}
                    ELSE ToCustomer(r1)
                : address1 \in get(r.form.address1, Address1Inputs)}
    ELSE ToCustomer(r)

\* an address block that leaves a reused company alone
ToAddressNewOnly(r) ==
    IF r.companyId # 0 /\ r.existingCompany = 0
    THEN UNION {LET r1 == [r EXCEPT !.form.address1 = address1]
                IN  IF NonBlank(address1) THEN {[r1 EXCEPT !.pc = "getLocation"]}
                    ELSE ToCustomer(r1)
                : address1 \in get(r.form.address1, Address1Inputs)}
    ELSE ToCustomer(r)

\* "1.5. Add shipping address to the company if companyId exists"
ToAddress(r) ==
    IF r.companyId # 0
    THEN UNION {LET r1 == [r EXCEPT !.form.address1 = address1]
                IN  IF NonBlank(address1) THEN {[r1 EXCEPT !.pc = "getLocation"]}
                    ELSE ToCustomer(r1)
                : address1 \in get(r.form.address1, Address1Inputs)}
    ELSE ToCustomer(r)

\* "Set company email metafield only for newly created companies"
ToMetafield(r) ==
    IF r.variant = "resolver" /\ r.companyId # 0 /\ r.existingCompany = 0
       /\ NonBlank(r.form.companyEmail)
    THEN {[r EXCEPT !.pc = "metafield"]}
    ELSE ToAddress(r)

\* "2. Create or use existing company"
ToCompany(r) ==
    IF r.existingCompany # 0
    THEN ToMetafield([r EXCEPT !.companyId = r.existingCompany])
    ELSE {[r EXCEPT !.pc = "companyCreate"]}

\* "1. Check if company with this email already exists in metafield"
ToCompanyLookup(r) ==
    IF r.variant = "resolver"
    THEN UNION {LET r1 == [r EXCEPT !.form.companyEmail = companyEmail]
                IN  IF NonBlank(companyEmail) THEN {[r1 EXCEPT !.pc = "companyLookup"]}
                    ELSE ToCompany(r1)
                : companyEmail \in get(r.form.companyEmail, CompanyEmailInputs)}
    ELSE ToCompany(r)

\* the run of p becomes x; the run of p becomes one of the runs of set.  The proxy
\* action never touches the pages or the menus of the shop.
Becomes(p, x) == run' = [run EXCEPT ![p] = x] /\ UNCHANGED <<pages, menus>>
Goes(p, set) == \E x \in set : Becomes(p, x)

-----------------------------------------------------------------------------
(* Shop and session resolution *)

MyShopify == ".myshopify.com"

\* a shop name is a sequence of chunks: <<"s">> or <<"s", ".myshopify.com">>
ShopDomain == <<"s", MyShopify>>

ProxyShops == {<<>>, ShopDomain}
ParamShops == {<<>>, ShopDomain}
Referrers ==
    {[kind |-> "none"], [kind |-> "invalid"],
     [kind |-> "url", hostname |-> <<"s", MyShopify>>],
     [kind |-> "url", hostname |-> <<"example.com">>]}

\* hostname.replace('.myshopify.com', ''): the first occurrence is removed
replaceMyShopify(hostname) ==
    LET i == FindIndex([k \in 1..Len(hostname) |-> hostname[k] = MyShopify])
    IN  IF i = 0 THEN hostname
        ELSE SubSeq(hostname, 1, i - 1) \o SubSeq(hostname, i + 1, Len(hostname))

\* url.searchParams.get("shop") || formData.get("shop")
ParamShop(urlShop, formShop) == IF urlShop # <<>> THEN urlShop ELSE formShop

\* the shop taken from the referrer, <<>> when it gives none
ReferrerShop(referrer) ==
    IF referrer.kind = "url" /\ includes(referrer.hostname, MyShopify)
    THEN replaceMyShopify(referrer.hostname)
    ELSE <<>>

\* the shop after the three attempts
ResolvedShop(in) ==
    IF in.proxyShop # <<>> THEN in.proxyShop
    ELSE IF ParamShop(in.urlShop, in.formShop) # <<>> THEN ParamShop(in.urlShop, in.formShop)
    ELSE ReferrerShop(in.referrer)

\* new URL(referrer) is reached, and throws on a referrer that is no URL
ReferrerThrows(in) ==
    /\ in.proxyShop = <<>>
    /\ ParamShop(in.urlShop, in.formShop) = <<>>
    /\ in.referrer.kind = "invalid"

ShopInputs ==
    [proxyShop : ProxyShops, urlShop : ParamShops, formShop : ParamShops, referrer : Referrers]

\* the session keys tried: offline_<shop>, then offline_<shop>.myshopify.com
SessionKeys(shop) == << <<"offline_">> \o shop, <<"offline_">> \o shop \o <<MyShopify>> >>

\* the session store's contents: the app is installed for the shop or not
SessionStores == {{}, {<<"offline_">> \o ShopDomain}}

\* shop.includes('.myshopify.com') ? shop : `${shop}.myshopify.com`
Endpoint(shop) == IF includes(shop, MyShopify) THEN shop ELSE shop \o <<MyShopify>>

Start(p) ==
    /\ run[p].pc = "idle"
    /\ \E variant \in Variants : Becomes(p, NewRun(variant))
    /\ UNCHANGED <<customers, companies>>

ResolveShop(p) ==
    /\ run[p].pc = "shop"
    /\ \E in \in ShopInputs :
         LET r == [run[p] EXCEPT !.shopInputs = in, !.shop = ResolvedShop(in)]
         IN  Becomes(p, IF ReferrerThrows(in) THEN Caught(r)
                        ELSE IF r.shop = <<>>
                             THEN ErrorResponse(r, 400, "Shop parameter missing")
                        ELSE [r EXCEPT !.pc = "session"])
    /\ UNCHANGED <<customers, companies>>

\* After the session is loaded the shop is only used through Endpoint(shop),
\* which is what the run keeps.
LoadSession(p) ==
    /\ run[p].pc = "session"
    /\ \E store \in SessionStores :
         LET keys == SessionKeys(run[p].shop)
             found == keys[1] \in store \/ keys[2] \in store
         IN  Becomes(p, IF found
                        THEN [run[p] EXCEPT !.pc = "identity",
                                            !.shop = Endpoint(run[p].shop),
                                            !.shopInputs = <<>>]
                        ELSE ErrorResponse(run[p], 401, "App not installed for this shop"))
    /\ UNCHANGED <<customers, companies>>

-----------------------------------------------------------------------------
(* Identity check and update of the existing customer *)

\* `email:"${userEmail.toLowerCase().trim()}"`
IdentityQuery(userEmail) == <<"email:", trim(toLowerCase(userEmail))>>

\* tags replaced by the wholesale tag
MergeTagsReplace(tags) == <<"wholesale">>

\* "Preserve existing tags and ensure 'wholesale' is included"
MergeTags(tags) == IF includes(tags, "wholesale") THEN tags ELSE Append(tags, "wholesale")

\* the phone sent whenever a value was submitted
PhoneInputTruthy(phone) == IF Truthy(phone) THEN trim(phone) ELSE Omitted

\* "Only add phone if it's not empty"
PhoneInput(phone) == IF NonBlank(phone) THEN trim(phone) ELSE Omitted

\* customerInput / fallbackCustomerInput of customerUpdate (names are passed through)
UpdateInput(variant, customer, phone) ==
    [id |-> customer.id,
     tags |-> IF variant = "resolver" THEN MergeTags(customer.tags) ELSE Omitted,
     phone |-> PhoneInput(phone)]

\* the directory after a customerUpdate that succeeded: keys left out are kept
Updated(input) ==
    [customers EXCEPT ![input.id] =
        [@ EXCEPT !.tags = IF input.tags = Omitted THEN @ ELSE input.tags,
                  !.phone = IF input.phone = Omitted THEN @ ELSE input.phone]]

\* The remote search may match by token or lag behind the directory: the first
\* edge is any customer, or there is none.
IdentityCheck(p) ==
    /\ run[p].pc = "identity"
    /\ \E userEmail \in get(run[p].form.userEmail, UserEmailInputs) :
         LET r0 == [run[p] EXCEPT !.form.userEmail = userEmail]
         IN  IF userEmail = NULL
             THEN Becomes(p, Caught(r0))
             ELSE LET r == Call(r0, [op |-> "GetCustomerByEmail",
                                     query |-> IdentityQuery(userEmail)])
                  IN  \/ Becomes(p, Caught(r))
                      \/ Goes(p, ToCompanyLookup(Failed(r)))
                      \/ Goes(p, ToCompanyLookup(r))
                      \/ \E i \in 1..Len(customers) :
                           Becomes(p, [r EXCEPT !.existingCustomer = CustomerNode(i),
                                                 !.pc = "updateExisting"])
    /\ UNCHANGED <<customers, companies>>

UpdateExisting(p) ==
    /\ run[p].pc = "updateExisting"
    /\ \E phone \in get(run[p].form.phone, PhoneInputs) :
         LET r0 == [run[p] EXCEPT !.form.phone = phone]
             input == UpdateInput(r0.variant, r0.existingCustomer, phone)
             r(reply) == Call(r0, [op |-> "customerUpdate", input |-> input, reply |-> reply])
         IN  \/ /\ Goes(p, ToCompanyLookup(r("ok")))
                /\ customers' = Updated(input)
             \/ /\ Goes(p, ToCompanyLookup(Failed(r("userErrors"))))
                /\ UNCHANGED customers
             \/ /\ Becomes(p, Caught(r("throw")))
                /\ UNCHANGED customers
    /\ UNCHANGED companies

-----------------------------------------------------------------------------
(* Company lookup, creation and metafield *)

CompaniesPage == 50
MetafieldsPage == 10

\* companies(first: 50) { metafields(first: 10) }
CompaniesReply ==
    [i \in 1..(IF Len(companies) < CompaniesPage THEN Len(companies) ELSE CompaniesPage) |->
        [id |-> i,
         metafields |-> SubSeq(companies[i].metafields, 1,
                               IF Len(companies[i].metafields) < MetafieldsPage
                               THEN Len(companies[i].metafields) ELSE MetafieldsPage)]]

\* the predicate without the namespace test
IsEmailMetafieldAnyNamespace(metafield, companyEmail) ==
    /\ metafield.key = "companyEmail"
    /\ toLowerCase(metafield.value) = trim(toLowerCase(companyEmail))

\* the predicate of company.metafields.edges.find(...)
IsEmailMetafield(metafield, companyEmail) ==
    /\ metafield.namespace = "custom"
    /\ metafield.key = "companyEmail"
    /\ toLowerCase(metafield.value) = trim(toLowerCase(companyEmail))

\* the loop over the companies: the id of the first one with a matching metafield, or 0
FindCompany(edges, companyEmail) ==
    LET emailMetafield(company) ==
            FindIndex([k \in 1..Len(company.metafields) |->
                          IsEmailMetafield(company.metafields[k], companyEmail)])
        i == FindIndex([k \in 1..Len(edges) |-> emailMetafield(edges[k]) # 0])
    IN  IF i = 0 THEN 0 ELSE edges[i].id

\* the run after the companies query was answered by reply
AfterLookup(r, reply) ==
    LET r1 == [r EXCEPT !.lookups = Append(@, reply)]
    IN  IF reply = "throw" THEN {Caught(r1)}
        ELSE IF reply = "errors" THEN ToCompany(Failed(r1))
        ELSE ToCompany([r1 EXCEPT !.existingCompany =
                           FindCompany(CompaniesReply, r.form.companyEmail)])

CompanyLookup(p) ==
    /\ run[p].pc = "companyLookup"
    /\ \E reply \in {"ok", "errors", "throw"} :
         Goes(p, AfterLookup(Call(run[p], [op |-> "GetCompaniesByEmailMetafield",
                                           reply |-> reply]),
                             reply))
    /\ UNCHANGED <<customers, companies>>

\* companyInput that never attaches a companyContact
CompanyInputNoContact(r) == [company |-> "company", companyContact |-> Omitted]

\* companyInput: a companyContact is attached only when no customer was found
CompanyInput(r) ==
    IF r.existingCustomer.id # 0
    THEN [company |-> "company", companyContact |-> Omitted]
    ELSE [company |-> "company", companyContact |-> r.form.userEmail]

\* The directory creates the contact's customer with the company, and refuses a
\* contact whose email a customer already has.
CompanyCreate(p) ==
    /\ run[p].pc = "companyCreate"
    /\ LET input == CompanyInput(run[p])
           r(reply) == Call(run[p], [op |-> "companyCreate", input |-> input, reply |-> reply])
       IN  \/ /\ input.companyContact = Omitted \/ ~EmailExists(input.companyContact)
              /\ companies' = Append(companies, Company(<<>>))
              /\ customers' = IF input.companyContact = Omitted THEN customers
                              ELSE Append(customers,
                                          Customer(trim(input.companyContact), NULL, <<>>))
              /\ Goes(p, ToMetafield([r("ok") EXCEPT !.companyId = Len(companies) + 1]))
           \/ /\ Goes(p, ToMetafield(Failed(r("empty"))))
              /\ UNCHANGED <<customers, companies>>
           \/ /\ Becomes(p, ErrorResponse(r("errors"), 400, "GraphQL errors in company creation"))
              /\ UNCHANGED <<customers, companies>>
           \/ /\ Becomes(p, ErrorResponse(r("userErrors"), 400, "Failed to create company"))
              /\ UNCHANGED <<customers, companies>>
           \/ /\ Becomes(p, Caught(r("throw")))
              /\ UNCHANGED <<customers, companies>>

\* the metafield written with the company email as submitted
MetafieldInputRaw(r) ==
    [ownerId |-> r.companyId, namespace |-> "custom", key |-> "companyEmail",
     value |-> r.form.companyEmail]

\* the metafield written for a new company
MetafieldInput(r) ==
    [ownerId |-> r.companyId, namespace |-> "custom", key |-> "companyEmail",
     value |-> trim(r.form.companyEmail)]

\* every failure of metafieldsSet, a thrown one included, is only logged
SetMetafield(p) ==
    /\ run[p].pc = "metafield"
    /\ LET input == MetafieldInput(run[p])
           r(reply) == Call(run[p], [op |-> "metafieldsSet", input |-> input, reply |-> reply])
       IN  \/ /\ Goes(p, ToAddress([r("ok") EXCEPT !.written =
                                       Append(@, [companyId |-> input.ownerId,
                                                  value |-> input.value,
                                                  submission |-> run[p].submission])]))
              /\ companies' = [companies EXCEPT ![input.ownerId].metafields =
                                  Append(@, Metafield(input.namespace, input.key, input.value))]
           \/ /\ Goes(p, ToAddress(Failed(r("userErrors"))))
              /\ UNCHANGED companies
    /\ UNCHANGED customers

-----------------------------------------------------------------------------
(* Address and tax id on the company's first location *)

\* city?.trim() || ""
trimOrEmpty(s) == IF s = NULL THEN <<>> ELSE trim(s)

\* (country || "IN").trim()
countryCode(country) == trim(IF Truthy(country) THEN country ELSE <<"I", "N">>)

\* addressInput.address (address2 and zoneCode are passed through like city)
AddressInput(address1, city, country, zipCode) ==
    [address1 |-> trim(address1), city |-> trimOrEmpty(city),
     countryCode |-> countryCode(country), zip |-> trimOrEmpty(zipCode)]

\* a throw inside the address block is caught by its try: the block is left
GetLocation(p) ==
    /\ run[p].pc = "getLocation"
    /\ LET r == Call(run[p], [op |-> "GetCompanyLocations", companyId |-> run[p].companyId])
       IN  \/ Goes(p, ToRename([r EXCEPT !.locationId = FirstLocation(r.companyId)]))
           \/ Goes(p, ToCustomer(Failed(r)))
    /\ UNCHANGED <<customers, companies>>

RenameLocation(p) ==
    /\ run[p].pc = "renameLocation"
    /\ LET r(reply) == Call(run[p], [op |-> "companyLocationUpdate",
                              companyLocationId |-> run[p].locationId,
                              name |-> locationNameFromForm(run[p].form.location),
                              reply |-> reply])
       IN  \/ Becomes(p, [r("ok") EXCEPT !.pc = "assignAddress"])
           \/ Becomes(p, [Failed(r("userErrors")) EXCEPT !.pc = "assignAddress"])
           \/ Goes(p, ToCustomer(Failed(r("throw"))))
    /\ UNCHANGED <<customers, companies>>

AssignAddress(p) ==
    /\ run[p].pc = "assignAddress"
    /\ \E country \in CountryInputs, city \in CityInputs, zipCode \in CityInputs :
         LET r(reply) == Call(run[p], [op |-> "companyLocationAssignAddress",
                                locationId |-> run[p].locationId,
                                country |-> country, city |-> city, zipCode |-> zipCode,
                                address |-> AddressInput(run[p].form.address1, city,
                                                         country, zipCode),
                                reply |-> reply])
         IN  \/ Goes(p, ToTax(r("ok")))
             \/ Goes(p, ToTax(Failed(r("userErrors"))))
             \/ Goes(p, ToCustomer(Failed(r("throw"))))
    /\ UNCHANGED <<customers, companies>>

\* the replies of companyLocationTaxSettingsUpdate
TaxReplies == {"ok", "userErrors", "mutationNotFound", "errors", "throw"}

\* the tax call, answered by reply
TaxCall(r, reply) ==
    Call(r, [op |-> "companyLocationTaxSettingsUpdate",
             companyLocationId |-> r.locationId,
             taxRegistrationId |-> trim(r.form.taxId),
             reply |-> reply])

\* the run after a tax call whose thrown exception is not caught
AfterTaxUncaught(r, reply) ==
    IF reply = "throw" THEN {Caught([r EXCEPT !.taxReply = reply])}
    ELSE ToCustomer([r EXCEPT !.taxReply = reply])

\* the run after the tax call was answered by reply: every failure is only logged
AfterTax(r, reply) == ToCustomer([r EXCEPT !.taxReply = reply])

SetTax(p) ==
    /\ run[p].pc = "tax"
    /\ \E reply \in TaxReplies : Goes(p, AfterTax(TaxCall(run[p], reply), reply))
    /\ UNCHANGED <<customers, companies>>

-----------------------------------------------------------------------------
(* Customer creation and the email-taken fallback *)

\* customerInput of customerCreate
CreateInput(variant, userEmail, phone) ==
    [email |-> userEmail,
     tags |-> IF variant = "resolver" THEN <<"wholesale">> ELSE Omitted,
     phone |-> PhoneInput(phone)]

\* the customer the directory stores for a customerCreate input
Created(input) ==
    Customer(trim(input.email),
             IF input.phone = Omitted THEN NULL ELSE input.phone,
             IF input.tags = Omitted THEN <<>> ELSE input.tags)

\* edge => edge.node.email.toLowerCase() === userEmail.toLowerCase().trim()
IsExactMatch(node, userEmail) == toLowerCase(node.email) = trim(toLowerCase(userEmail))

\* edges.find(IsExactMatch): the predicate throws a TypeError on a node whose email
\* is null, if find gets to it.  "throw", or the node found, or NoCustomer.
FindExact(edges, userEmail) ==
    LET i == FindIndex([k \in 1..Len(edges) |->
                          edges[k].email = NULL \/ IsExactMatch(edges[k], userEmail)])
    IN  IF i = 0 THEN NoCustomer
        ELSE IF edges[i].email = NULL THEN [id |-> 0, email |-> NULL, phone |-> NULL,
                                             tags |-> <<"throw">>]
        ELSE edges[i]

Threw(found) == found.id = 0 /\ found.tags = <<"throw">>

\* a fallback that takes the first edge of the reply as it comes
AfterSearchFirstEdge(r, edges) ==
    IF edges # <<>> THEN {[r EXCEPT !.foundCustomer = edges[1], !.pc = "fallbackUpdate"]}
    ELSE ToLink([r EXCEPT !.customerError = r.errorMessage])

\* the end of the fallback search: update the customer found, or keep the error
AfterSearch(r, edges) ==
    LET found == FindExact(edges, r.form.userEmail)
    IN  IF Threw(found) THEN {Caught(r)}
        ELSE IF found.id # 0 THEN {[r EXCEPT !.foundCustomer = found, !.pc = "fallbackUpdate"]}
        ELSE ToLink([r EXCEPT !.customerError = r.errorMessage])

\* the replies a customers(query: ...) search may give: up to two customers, any of
\* the directory (the search matches by token and may lag behind the directory)
SearchReplies ==
    {<<>>} \cup {<<CustomerNode(i)>> : i \in 1..Len(customers)}
           \cup {<<CustomerNode(ij[1]), CustomerNode(ij[2])>> :
                    ij \in {x \in (1..Len(customers)) \X (1..Len(customers)) : x[1] # x[2]}}

RecentPage == 50

\* customers(first: 50, sortKey: CREATED_AT, reverse: true)
RecentCustomers ==
    LET n == Len(customers)
        m == IF n < RecentPage THEN n ELSE RecentPage
    IN  [k \in 1..m |-> CustomerNode(n + 1 - k)]

\* edges.filter(IsExactMatch), evaluated on every edge
FilterExact(edges, userEmail) ==
    SelectSeq(edges, LAMBDA node : IsExactMatch(node, userEmail))

CustomerCreate(p) ==
    /\ run[p].pc = "customerCreate"
    /\ \E phone \in get(run[p].form.phone, PhoneInputs) :
         LET r0 == [run[p] EXCEPT !.form.phone = phone]
             input == CreateInput(r0.variant, r0.form.userEmail, phone)
             r(reply) == Call(r0, [op |-> "customerCreate", input |-> input, reply |-> reply])
         IN  \/ /\ ~EmailExists(input.email)
                /\ customers' = Append(customers, Created(input))
                /\ Goes(p, ToLink([r("ok") EXCEPT !.customerId = Len(customers) + 1]))
             \/ /\ EmailExists(input.email)
                /\ Becomes(p, [r("emailTaken") EXCEPT !.errorMessage = EmailTaken,
                                                      !.pc = "fallback1"])
                /\ UNCHANGED customers
             \/ /\ \E message \in OtherCustomerErrors :
                     Goes(p, ToLink([Failed(r("userErrors")) EXCEPT !.errorMessage = message,
                                                                    !.customerError = message]))
                /\ UNCHANGED customers
             \/ /\ Goes(p, ToLink([Failed(r("errors")) EXCEPT
                                      !.customerError = "GraphQL errors in customer creation"]))
                /\ UNCHANGED customers
             \/ /\ Goes(p, ToLink(Failed(r("empty"))))
                /\ UNCHANGED customers
             \/ /\ Becomes(p, Caught(r("throw")))
                /\ UNCHANGED customers
    /\ UNCHANGED companies

\* a search call, answered by reply ("edges", "errors" or "throw") with edges
Search(r, op, query, reply, edges) ==
    Call(r, [op |-> op, query |-> query, reply |-> reply, edges |-> edges])

\* Strategy 1: search by exact email
Fallback1(p) ==
    /\ run[p].pc = "fallback1"
    /\ LET r(reply, edges) == Search(run[p], "SearchCustomerByEmail",
                                     <<trim(run[p].form.userEmail)>>, reply, edges)
       IN  \/ \E edges \in SearchReplies :
                IF edges # <<>> THEN Goes(p, AfterSearch(r("edges", edges), edges))
                ELSE Becomes(p, [r("edges", edges) EXCEPT !.pc = "fallback2"])
           \/ Becomes(p, [Failed(r("errors", <<>>)) EXCEPT !.pc = "fallback2"])
           \/ Becomes(p, Caught(r("throw", <<>>)))
    /\ UNCHANGED <<customers, companies>>

\* Strategy 2: search with the email: prefix
Fallback2(p) ==
    /\ run[p].pc = "fallback2"
    /\ LET r(reply, edges) == Search(run[p], "SearchCustomerByEmailPrefix",
                                     <<"email:", trim(run[p].form.userEmail)>>, reply, edges)
       IN  \/ \E edges \in SearchReplies :
                IF edges # <<>> THEN Goes(p, AfterSearch(r("edges", edges), edges))
                ELSE Becomes(p, [r("edges", edges) EXCEPT !.pc = "fallback3"])
           \/ Becomes(p, [Failed(r("errors", <<>>)) EXCEPT !.pc = "fallback3"])
           \/ Becomes(p, Caught(r("throw", <<>>)))
    /\ UNCHANGED <<customers, companies>>

\* Strategy 3: the recent customers, filtered for the email.  Without a match the
\* (empty) reply of strategy 2 stays in fallbackSearchJson.
Fallback3(p) ==
    /\ run[p].pc = "fallback3"
    /\ LET r(reply, edges) == Search(run[p], "GetAllRecentCustomers", <<>>, reply, edges)
       IN  \/ IF \E i \in 1..Len(RecentCustomers) : RecentCustomers[i].email = NULL
              THEN Becomes(p, Caught(r("edges", RecentCustomers)))
              ELSE Goes(p, AfterSearch(r("edges", RecentCustomers),
                                       FilterExact(RecentCustomers, run[p].form.userEmail)))
           \/ Goes(p, AfterSearch(Failed(r("errors", <<>>)), <<>>))
           \/ Becomes(p, Caught(r("throw", <<>>)))
    /\ UNCHANGED <<customers, companies>>

\* a refused update that keeps the found customer's id all the same
UpdateRefusedKeepsId(r, message) ==
    [r EXCEPT !.customerError = message, !.customerId = r.foundCustomer.id]

\* userErrors of the fallback's update: only customerError is assigned
UpdateRefused(r, message) == [r EXCEPT !.customerError = message]

\* the update of the customer the fallback found; a reply without data and
\* without userErrors counts as a success
FallbackUpdate(p) ==
    /\ run[p].pc = "fallbackUpdate"
    /\ LET input == UpdateInput(run[p].variant, run[p].foundCustomer, run[p].form.phone)
           r(reply) == Call(run[p], [op |-> "customerUpdate", input |-> input, reply |-> reply])
           updated(x) == [x EXCEPT !.customerId = x.foundCustomer.id, !.customerError = NoError]
       IN  \/ /\ Goes(p, ToLink(updated(r("ok"))))
              /\ customers' = Updated(input)
           \/ /\ Goes(p, ToLink(Failed(updated(r("errors")))))
              /\ UNCHANGED customers
           \/ /\ \E message \in UpdateErrors :
                   Goes(p, ToLink(UpdateRefused(Failed(r("userErrors")), message)))
              /\ UNCHANGED customers
           \/ /\ Becomes(p, Caught(r("throw")))
              /\ UNCHANGED customers
    /\ UNCHANGED companies

-----------------------------------------------------------------------------
(* Linking the customer to the company *)

\* the id of the company contact that links a customer to a company
ContactId(companyId, customerId) == customerId

\* s.includes(sub) on strings
includesString(s, sub) ==
    \E i \in 0..(Len(s) - Len(sub)) : SubSeq(s, i + 1, i + Len(sub)) = sub

buyer == <<"b", "u", "y", "e", "r">>
admin == <<"a", "d", "m", "i", "n">>

Role(id, name) == [id |-> id, name |-> name]

NoRole == Role(0, <<>>)

\* what GetCompanyRoles may return: company.defaultRole and company.contactRoles.nodes
RoleCatalogs ==
    {[defaultRole |-> Role(9, <<"O">>),
      nodes |-> <<Role(2, <<"A", "d", "m", "i", "n">>), Role(3, <<"B", "u", "y", "e", "r">>)>>],
     [defaultRole |-> NoRole,
      nodes |-> <<Role(2, <<"A", "d", "m", "i", "n">>), Role(3, <<"x", "B", "u", "y", "e", "r">>),
                  Role(4, <<"b", "u", "y", "e", "r", "s">>)>>],
     [defaultRole |-> NoRole,
      nodes |-> <<Role(5, <<"M">>), Role(2, <<"x", "A", "d", "m", "i", "n">>),
                  Role(6, <<"a", "d", "m", "i", "n">>)>>],
     [defaultRole |-> NoRole, nodes |-> <<Role(5, <<"M">>), Role(7, <<"b", "u", "y">>)>>],
     [defaultRole |-> NoRole, nodes |-> <<>>]}

\* a reply without company data
NoCatalog == [defaultRole |-> NoRole, nodes |-> <<>>]

\* a choice that prefers an admin role to a buyer role
ChooseRoleAdminFirst(catalog) ==
    IF catalog.defaultRole.id # 0 THEN catalog.defaultRole.id
    ELSE IF Len(catalog.nodes) > 0
         THEN LET roles == catalog.nodes
                  b == FindIndex([k \in 1..Len(roles) |->
                                     includesString(toLowerCase(roles[k].name), buyer)])
                  a == FindIndex([k \in 1..Len(roles) |->
                                     includesString(toLowerCase(roles[k].name), admin)])
              IN  IF a # 0 THEN roles[a].id
                  ELSE IF b # 0 THEN roles[b].id
                  ELSE roles[1].id
    ELSE 0

\* "Choose the best role ID for ordering permissions": roleIdToAssign, 0 if none
ChooseRole(catalog) ==
    IF catalog.defaultRole.id # 0 THEN catalog.defaultRole.id
    ELSE IF Len(catalog.nodes) > 0
         THEN LET roles == catalog.nodes
                  b == FindIndex([k \in 1..Len(roles) |->
                                     includesString(toLowerCase(roles[k].name), buyer)])
                  a == FindIndex([k \in 1..Len(roles) |->
                                     includesString(toLowerCase(roles[k].name), admin)])
              IN  IF b # 0 THEN roles[b].id
                  ELSE IF a # 0 THEN roles[a].id
                  ELSE roles[1].id
    ELSE 0

\* a link step that goes on to the main contact without a contact id
AfterContactAlwaysMain(r) == [r EXCEPT !.pc = "assignMain"]

\* "if (companyContactId)": without a contact id the else branch only logs
AfterContact(r) ==
    IF r.companyContactId # 0 THEN [r EXCEPT !.pc = "assignMain"] ELSE Respond(r)

\* 3a: companyAssignCustomerAsContact for a customer the identity check found
AssignContact(p) ==
    /\ run[p].pc = "assignContact"
    /\ LET r(reply) == Call(run[p], [op |-> "companyAssignCustomerAsContact",
                                     companyId |-> run[p].companyId,
                                     customerId |-> run[p].customerId, reply |-> reply])
       IN  \/ Becomes(p, AfterContact([r("ok") EXCEPT !.companyContactId =
                                          ContactId(run[p].companyId, run[p].customerId)]))
           \/ Becomes(p, AfterContact(Failed(r("userErrors"))))
           \/ Becomes(p, Caught(r("throw")))
    /\ UNCHANGED <<customers, companies>>

\* the run that stops after companyAssignMainContact
AfterMainNoRoles(r) == Respond(r)

\* a run that sends companyAssignMainContact a second time after userErrors
AfterMainRetry(r) ==
    IF r.lastCall.reply = "userErrors" /\ Len(SelectSeq(r.calls, LAMBDA op : op = r.lastCall.op)) < 2
    THEN [r EXCEPT !.pc = "assignMain"]
    ELSE IF r.variant = "resolver" THEN [r EXCEPT !.pc = "getLocationRoles"] ELSE Respond(r)

\* the run after companyAssignMainContact was answered: its reply is only logged
AfterMain(r) ==
    IF r.variant = "resolver" THEN [r EXCEPT !.pc = "getLocationRoles"] ELSE Respond(r)

AssignMain(p) ==
    /\ run[p].pc = "assignMain"
    /\ LET r(reply) == Call(run[p], [op |-> "companyAssignMainContact",
                              companyId |-> run[p].companyId,
                              companyContactId |-> run[p].companyContactId,
                              reply |-> reply])
       IN  \/ Becomes(p, AfterMain(r("ok")))
           \/ Becomes(p, AfterMain(Failed(r("userErrors"))))
           \/ Becomes(p, Caught(r("throw")))
    /\ UNCHANGED <<customers, companies>>

\* a throw inside the permissions block is caught by its try
GetLocationRoles(p) ==
    /\ run[p].pc = "getLocationRoles"
    /\ LET r == Call(run[p], [op |-> "GetLocationRoles", companyId |-> run[p].companyId])
       IN  \/ Becomes(p, [r EXCEPT !.pc = "getRoles"])
           \/ Becomes(p, Respond(Failed(r)))
    /\ UNCHANGED <<customers, companies>>

GetRoles(p) ==
    /\ run[p].pc = "getRoles"
    /\ LET r(reply, catalog) == Call(run[p], [op |-> "GetCompanyRoles",
                                              companyId |-> run[p].companyId,
                                              reply |-> reply, catalog |-> catalog])
       IN  \/ \E catalog \in RoleCatalogs :
                IF ChooseRole(catalog) # 0
                THEN Becomes(p, [r("ok", catalog) EXCEPT !.roleIdToAssign = ChooseRole(catalog),
                                                         !.pc = "assignRole"])
                ELSE Becomes(p, Respond(Failed(r("ok", catalog))))
           \/ Becomes(p, Respond(Failed(r("errors", NoCatalog))))
    /\ UNCHANGED <<customers, companies>>

AssignRole(p) ==
    /\ run[p].pc = "assignRole"
    /\ LET r(reply) == Call(run[p], [op |-> "companyContactAssignRoles",
                              contactId |-> run[p].companyContactId,
                              roleId |-> run[p].roleIdToAssign,
                              locationId |-> FirstLocation(run[p].companyId),
                              reply |-> reply])
       IN  \/ Becomes(p, Respond(r("ok")))
           \/ Becomes(p, Respond(Failed(r("userErrors"))))
    /\ UNCHANGED <<customers, companies>>

\* 3b: a new customer and a reused company
AssignNewContact(p) ==
    /\ run[p].pc = "assignNewContact"
    /\ LET r(reply) == Call(run[p], [op |-> "companyAssignCustomerAsContact",
                              companyId |-> run[p].companyId,
                              customerId |-> run[p].customerId, reply |-> reply])
       IN  \/ Becomes(p, Respond(r("ok")))
           \/ Becomes(p, Respond(Failed(r("userErrors"))))
           \/ Becomes(p, Caught(r("throw")))
    /\ UNCHANGED <<customers, companies>>

-----------------------------------------------------------------------------
(* The directory before the submission *)

cK == Customer(<<"k">>, NULL, <<>>)

CustomerDirs ==
    {<<>>,
     <<cK>>,
     <<cK, Customer(<<"J">>, <<"9">>, <<"vip">>)>>,
     <<Customer(<<"j">>, NULL, <<"wholesale", "vip">>)>>,
     <<Customer(<<"j">>, <<"9">>, <<>>), cK>>}

coC == Company(<<Metafield("custom", "companyEmail", <<"C">>)>>)
coC2 == Company(<<Metafield("custom", "note", <<"d">>), Metafield("custom", "companyEmail", <<"c">>)>>)
coD == Company(<<Metafield("custom", "companyEmail", <<"d">>)>>)
coX == Company(<<Metafield("custom", "email", <<"c">>), Metafield("app", "companyEmail", <<"c">>)>>)

CompanyDirs == {<<>>, <<coX, coD>>, <<coX, coC2, coC>>}

Init ==
    /\ customers \in CustomerDirs
    /\ pages = <<>>
    /\ menus = <<>>
    /\ companies \in CompanyDirs
    /\ run = [p \in Procs |-> IdleRun]

Step(p) ==
    \/ Start(p)
    \/ ResolveShop(p)
    \/ LoadSession(p)
    \/ IdentityCheck(p)
    \/ UpdateExisting(p)
    \/ CompanyLookup(p)
    \/ CompanyCreate(p)
    \/ SetMetafield(p)
    \/ GetLocation(p)
    \/ RenameLocation(p)
    \/ AssignAddress(p)
    \/ SetTax(p)
    \/ CustomerCreate(p)
    \/ Fallback1(p)
    \/ Fallback2(p)
    \/ Fallback3(p)
    \/ FallbackUpdate(p)
    \/ AssignContact(p)
    \/ AssignMain(p)
    \/ GetLocationRoles(p)
    \/ GetRoles(p)
    \/ AssignRole(p)
    \/ AssignNewContact(p)

\* one submission, processed from start to finish
Next == Step("p1")

Spec == Init /\ [][Next]_vars

\* the number of submissions a client sends one after the other
MaxSubmissions == 2

\* the next submission of a client, sent after the response to the previous one
Again(p) ==
    /\ run[p].pc = "done"
    /\ run[p].submission < MaxSubmissions
    /\ Becomes(p, [NewRun(run[p].variant) EXCEPT !.submission = run[p].submission + 1,
                                                 !.written = run[p].written,
                                                 !.lookups = run[p].lookups])
    /\ UNCHANGED <<customers, companies>>

InitSeq ==
    /\ customers = <<>>
    /\ pages = <<>>
    /\ menus = <<>>
    /\ companies \in {<<>>, <<coC>>}
    /\ run = [p \in Procs |-> IdleRun]

\* non-overlapping submissions, each processed from start to finish
NextSeq == Step("p1") \/ Again("p1")

SpecSeq == InitSeq /\ [][NextSeq]_vars

\* Concurrent submissions.  Two requests of the variant with the company resolver
\* are in flight; each has passed shop, session and the identity check, which
\* found no customer, before either has changed the directory.  No address is
\* submitted.
ParUserEmails == {<<" ", "J">>, <<"k">>}

ParCompanyEmails == {NULL, <<"c">>, <<"c", " ">>}

Raced(userEmail, companyEmail) ==
    LET r0 == [NewRun("resolver") EXCEPT
                  !.shop = Endpoint(ShopDomain),
                  !.form = [userEmail |-> userEmail, phone |-> NULL,
                            companyEmail |-> companyEmail, address1 |-> NULL,
                            location |-> Unread, taxId |-> Unread]]
        r == Call(r0, [op |-> "GetCustomerByEmail", query |-> IdentityQuery(userEmail)])
    IN  CHOOSE x \in ToCompanyLookup(r) : TRUE

InitPar ==
    /\ customers = <<>>
    /\ pages = <<>>
    /\ menus = <<>>
    /\ companies = <<>>
    /\ run \in [Procs -> {Raced(userEmail, companyEmail) :
                            userEmail \in ParUserEmails, companyEmail \in ParCompanyEmails}]

\* the steps a request takes from the company lookup on
StepPar(p) ==
    \/ CompanyLookup(p)
    \/ CompanyCreate(p)
    \/ SetMetafield(p)
    \/ CustomerCreate(p)
    \/ Fallback1(p)
    \/ Fallback2(p)
    \/ Fallback3(p)
    \/ FallbackUpdate(p)
    \/ AssignNewContact(p)

\* the awaited calls of the two requests interleave in any order
NextPar == StepPar("p1") \/ StepPar("p2")

SpecPar == InitPar /\ [][NextPar]_vars

-----------------------------------------------------------------------------
(* The loader of the admin wholesale page: it creates the storefront page   *)
(* and its menu item when it finds no such page.                            *)

WholesaleRegistration == "Wholesale Registration"

Page(title, handle) == [title |-> title, handle |-> handle]

Menu(handle, title, items) == [handle |-> handle, title |-> title, items |-> items]

\* pages(first: 50)
PagesPage == 50

PagesReply == SubSeq(pages, 1, IF Len(pages) < PagesPage THEN Len(pages) ELSE PagesPage)

\* menus(first: 10)
MenusPage == 10

MenusReply == SubSeq(menus, 1, IF Len(menus) < MenusPage THEN Len(menus) ELSE MenusPage)

\* a check that knows the page by its handle only
IsExistingPageByHandle(page) == page.handle = <<"quick-order">>

\* edge.node.title === "Wholesale Registration" || edge.node.handle === "quick-order"
IsExistingPage(page) ==
    page.title = WholesaleRegistration \/ page.handle = <<"quick-order">>

\* edge.node.handle === 'main-menu' || edge.node.title === 'Main menu'
IsMainMenu(menu) == menu.handle = "main-menu" \/ menu.title = "Main menu"

\* `quick-order-${Math.random()...}`: a handle no other page has
NewHandle == <<"quick-order", "-", Len(pages) + 1>>

\* One invocation of the loader.  created (the pages the loader has created so
\* far) and answered (every pages query so far was answered with the pages) are
\* kept from one invocation to the next; existed tells whether the page
\* existed when the invocation began.
NewLoad(invocation, created, answered) ==
    [pc |-> "pages", invocation |-> invocation, created |-> created, answered |-> answered,
     existed |-> \E i \in 1..Len(pages) : pages[i].title = WholesaleRegistration,
     existingPage |-> 0, pageId |-> 0, mainMenu |-> 0,
     calls |-> <<>>, lastCall |-> NoCall, response |-> NoResponse]

IdleLoad == [NewLoad(0, 0, TRUE) EXCEPT !.pc = "done"]

\* the number of invocations of the loader
MaxInvocations == 3

\* return json({ message, pageExists, pageId })
Return(r) ==
    [r EXCEPT !.pc = "done",
              !.response = [kind |-> "result", pageExists |-> r.existingPage # 0,
                            pageId |-> r.existingPage]]

\* the admin page is opened (again)
Load(p) ==
    /\ run[p].pc = "done"
    /\ run[p].invocation < MaxInvocations
    /\ run' = [run EXCEPT ![p] = NewLoad(run[p].invocation + 1, run[p].created,
                                         run[p].answered)]
    /\ UNCHANGED <<customers, companies, pages, menus>>

\* "Check if custom page already exists": a reply without data counts as no page;
\* the query is not inside the try
GetPages(p) ==
    /\ run[p].pc = "pages"
    /\ LET r(reply) == Call(run[p], [op |-> "GetPages", reply |-> reply])
           existingPage == FindIndex([k \in 1..Len(PagesReply) |-> IsExistingPage(PagesReply[k])])
       IN  \/ run' = [run EXCEPT ![p] =
                        IF existingPage # 0
                        THEN Return([r("ok") EXCEPT !.existingPage = existingPage])
                        ELSE [r("ok") EXCEPT !.pc = "pageCreate"]]
           \/ run' = [run EXCEPT ![p] = [r("errors") EXCEPT !.pc = "pageCreate",
                                                            !.answered = FALSE]]
           \/ run' = [run EXCEPT ![p] = [r("throw") EXCEPT !.pc = "done", !.answered = FALSE,
                                                           !.response = [kind |-> "error"]]]
    /\ UNCHANGED <<customers, companies, pages, menus>>

\* pageCreate; without a page id in the reply, and on a throw, the loader returns
PageCreate(p) ==
    /\ run[p].pc = "pageCreate"
    /\ LET r(reply) == Call(run[p], [op |-> "pageCreate", title |-> WholesaleRegistration,
                                     handle |-> NewHandle, reply |-> reply])
       IN  \/ /\ pages' = Append(pages, Page(WholesaleRegistration, NewHandle))
              /\ run' = [run EXCEPT ![p] = [r("ok") EXCEPT !.pageId = Len(pages) + 1,
                                                           !.created = @ + 1,
                                                           !.pc = "menus"]]
           \/ /\ \E reply \in {"userErrors", "throw"} :
                   run' = [run EXCEPT ![p] = Return(r(reply))]
              /\ UNCHANGED pages
    /\ UNCHANGED <<customers, companies, menus>>

\* the main menu has an item titled "Wholesale Registration"
HasItem(menu) == \E k \in 1..Len(menu.items) : menu.items[k] = WholesaleRegistration

\* "Get the main menu by handle"
GetMainMenu(p) ==
    /\ run[p].pc = "menus"
    /\ LET r(reply) == Call(run[p], [op |-> "GetMainMenu", reply |-> reply])
           mainMenu == FindIndex([k \in 1..Len(MenusReply) |-> IsMainMenu(MenusReply[k])])
       IN  \/ run' = [run EXCEPT ![p] =
                        IF mainMenu # 0
                        THEN IF HasItem(menus[mainMenu]) THEN Return(r("ok"))
                             ELSE [r("ok") EXCEPT !.mainMenu = mainMenu, !.pc = "menuUpdate"]
                        ELSE [r("ok") EXCEPT !.pc = "menuCreate"]]
           \/ run' = [run EXCEPT ![p] = [r("errors") EXCEPT !.pc = "menuCreate"]]
           \/ run' = [run EXCEPT ![p] = Return(r("throw"))]
    /\ UNCHANGED <<customers, companies, pages, menus>>

\* menuUpdate with the menu's items and the new item
MenuUpdate(p) ==
    /\ run[p].pc = "menuUpdate"
    /\ LET mainMenu == run[p].mainMenu
           updatedItems == Append(menus[mainMenu].items, WholesaleRegistration)
           r(reply) == Call(run[p], [op |-> "menuUpdate", id |-> mainMenu,
                                     items |-> updatedItems, reply |-> reply])
       IN  \/ /\ menus' = [menus EXCEPT ![mainMenu].items = updatedItems]
              /\ run' = [run EXCEPT ![p] = Return(r("ok"))]
           \/ /\ \E reply \in {"userErrors", "throw"} :
                   run' = [run EXCEPT ![p] = Return(r(reply))]
              /\ UNCHANGED menus
    /\ UNCHANGED <<customers, companies, pages>>

\* menuCreate of a menu with the handle main-menu, which the shop refuses when a
\* menu has that handle
MenuCreate(p) ==
    /\ run[p].pc = "menuCreate"
    /\ LET r(reply) == Call(run[p], [op |-> "menuCreate", handle |-> "main-menu",
                                     reply |-> reply])
       IN  \/ /\ \A k \in 1..Len(menus) : menus[k].handle # "main-menu"
              /\ menus' = Append(menus, Menu("main-menu", "Main menu",
                                             <<"Home", WholesaleRegistration>>))
              /\ run' = [run EXCEPT ![p] = Return(r("ok"))]
           \/ /\ \E reply \in {"userErrors", "throw"} :
                   run' = [run EXCEPT ![p] = Return(r(reply))]
              /\ UNCHANGED menus
    /\ UNCHANGED <<customers, companies, pages>>

\* the pages and the menus of a shop before the app is opened
PageStores ==
    {<<>>,
     <<Page("About", <<"about">>)>>,
     <<Page("Orders", <<"quick-order">>)>>,
     <<Page("About", <<"about">>), Page(WholesaleRegistration, <<"wholesale">>)>>}

MenuStores ==
    {<<>>,
     <<Menu("main-menu", "Main menu", <<"Home">>)>>,
     <<Menu("main-menu", "Main menu", <<"Home", WholesaleRegistration>>)>>,
     <<Menu("footer", "Footer", <<"Search">>), Menu("main", "Main menu", <<>>)>>,
     <<Menu("footer", "Footer", <<WholesaleRegistration>>)>>}

InitPage ==
    /\ customers = <<>>
    /\ companies = <<>>
    /\ pages \in PageStores
    /\ menus \in MenuStores
    /\ run = [p \in Procs |-> IdleLoad]

\* invocations of the loader, one after the other
NextPage ==
    \/ Load("p1")
    \/ GetPages("p1")
    \/ PageCreate("p1")
    \/ GetMainMenu("p1")
    \/ MenuUpdate("p1")
    \/ MenuCreate("p1")

SpecPage == InitPage /\ [][NextPage]_vars

-----------------------------------------------------------------------------
(* The storefront form: submitForm of the page's inline script.  The page    *)
(* holds the fields, the styling left by validateForm, the submit button and *)
(* the toast; the request to /apps/proxy is answered, or fails, in one step. *)

\* /^[^\s@]+@[^\s@]+\.[^\s@]+$/.test(s)
emailPattern(s) ==
    \E a \in 2..Len(s) :
      /\ s[a] = "@"
      /\ \A i \in 1..Len(s) : i # a => s[i] \notin {" ", "@"}
      /\ \E d \in (a + 2)..(Len(s) - 1) : s[d] = "."

\* the fields validateForm refuses (showError), among the three required fields
\* drawn here; the other fields of the form are held at values it accepts
FieldErrors(fields) ==
    {f \in {"companyName"} : Len(trim(fields.companyName)) < 2}
      \cup {f \in {"userEmail"} : trim(fields.userEmail) = <<>>
                                     \/ ~emailPattern(trim(fields.userEmail))}
      \cup {f \in {"address1"} : trim(fields.address1) = <<>>}

\* validateForm(): isValid
validateForm(fields) == FieldErrors(fields) = {}

\* form.reset(): every input goes back to its empty default
ResetFields == [companyName |-> <<>>, userEmail |-> <<>>, address1 |-> <<>>]

\* showToast(message, type): the toast on the page is replaced
showToast(message, type) == [message |-> message, type |-> type]

NoAnswer == [kind |-> "none"]

\* the page with its form as the visitor has filled it
FormPage(fields) ==
    [pc |-> "form", fields |-> fields, errors |-> {}, styled |-> FALSE, disabled |-> FALSE,
     toast |-> showToast("none", "none"), sent |-> ResetFields,
     answer |-> NoAnswer]

\* the last handler of the chain, as it would be if it looked at the answer
onResultChecked(r, response, data) ==
    IF response >= 200 /\ response <= 299 /\ data = "success"
    THEN [r EXCEPT !.pc = "done", !.disabled = FALSE,
                   !.toast = showToast("Form submitted successfully! Your request has been processed.",
                                       "success"),
                   !.fields = ResetFields, !.styled = FALSE]
    ELSE [r EXCEPT !.pc = "done", !.disabled = FALSE,
                   !.toast = showToast("Submission failed", "error")]

\* .then(function(result) {...}): the button is enabled again, the success toast
\* is shown and the form is reset, whatever result.response and result.data are
onResult(r, response, data) ==
    [r EXCEPT !.pc = "done", !.disabled = FALSE,
              !.toast = showToast("Form submitted successfully! Your request has been processed.",
                                  "success"),
              !.fields = ResetFields, !.styled = FALSE]

\* .catch(function(error) {...}): the same with another message
onError(r) ==
    [r EXCEPT !.pc = "done", !.disabled = FALSE,
              !.toast = showToast("Form submitted! Your request is being processed.", "success"),
              !.fields = ResetFields, !.styled = FALSE]

\* onsubmit: validateForm clears the old styling and marks the fields; an invalid
\* form is not sent; a valid one disables the button and posts the form data
submitForm(p) ==
    /\ run[p].pc \in {"form", "done"}
    /\ ~run[p].disabled
    /\ LET r == [run[p] EXCEPT !.errors = FieldErrors(run[p].fields), !.styled = TRUE]
       IN  run' = [run EXCEPT ![p] =
                     IF ~validateForm(r.fields)
                     THEN r
                     ELSE [r EXCEPT !.pc = "sent", !.disabled = TRUE, !.sent = r.fields,
                                    !.answer = NoAnswer]]
    /\ UNCHANGED <<customers, companies, pages, menus>>

\* fetch resolves with a response of any status, whose body is the result form
\* with success true or false, the error form, or no JSON; response.json() rejects
\* on a body that is no JSON, which leads to the catch handler
Answered(p) ==
    /\ run[p].pc = "sent"
    /\ \E status \in {200, 400, 401, 500},
          body \in {"success", "successFalse", "error", "notJson"} :
         LET r == [run[p] EXCEPT !.answer = [kind |-> "response", status |-> status,
                                             body |-> body]]
         IN  run' = [run EXCEPT ![p] = IF body = "notJson" THEN onError(r)
                                       ELSE onResult(r, status, body)]
    /\ UNCHANGED <<customers, companies, pages, menus>>

\* fetch rejects: the request itself fails
Rejected(p) ==
    /\ run[p].pc = "sent"
    /\ run' = [run EXCEPT ![p] = onError([run[p] EXCEPT !.answer = [kind |-> "failed"]])]
    /\ UNCHANGED <<customers, companies, pages, menus>>

InitForm ==
    /\ customers = <<>>
    /\ companies = <<>>
    /\ pages = <<>>
    /\ menus = <<>>
    /\ \E companyName \in {<<>>, <<"A">>, <<" ", "A", "c">>, <<"A", "c">>},
          userEmail \in {<<>>, <<"j", "@", "k">>, <<"j", "@", "k", ".", "c">>,
                         <<" ", "j", "@", "k", ".", "c">>, <<"j", " ", "@", "k", ".", "c">>},
          address1 \in {<<" ">>, <<"a">>} :
         run = [p \in Procs |-> FormPage([companyName |-> companyName,
                                          userEmail |-> userEmail,
                                          address1 |-> address1])]

NextForm ==
    \/ submitForm("p1")
    \/ Answered("p1")
    \/ Rejected("p1")

SpecForm == InitForm /\ [][NextForm]_vars

-----------------------------------------------------------------------------
(* Properties *)

\* the number of calls of op in a trace
Count(calls, op) == Cardinality({i \in 1..Len(calls) : calls[i] = op})

Issued(r, op) == Count(r.calls, op) > 0

\* the run has returned the result-form response
Result(r) == r.pc = "done" /\ r.response.kind = "result"

\* the companies whose "custom"/"companyEmail" metafield equals the submitted
\* company email, trimmed and lower-cased
Matching(companyEmail) ==
    {i \in 1..Len(companies) :
        \E k \in 1..Len(companies[i].metafields) :
            LET m == companies[i].metafields[k]
            IN  /\ m.namespace = "custom"
                /\ m.key = "companyEmail"
                /\ toLowerCase(m.value) = toLowerCase(trim(companyEmail))}

\* the least element of a set of ids, 0 for the empty set
Least(S) == IF S = {} THEN 0 ELSE CHOOSE i \in S : \A j \in S : i <= j

\* C1: in the variant that resolves companies, when the companies query is answered
\* and the submitted company email matches the "custom"/"companyEmail" metafield of
\* a company, the run takes the first such company: it issues no companyCreate and
\* no metafieldsSet, and the companyId it uses and returns is that company's id.
C1_CompanyReuse ==
    \A p \in Procs :
        LET r == run[p]
        IN  /\ ( /\ r.lastCall.op = "GetCompaniesByEmailMetafield"
                 /\ r.lastCall.reply = "ok"
                 /\ Matching(r.form.companyEmail) # {} )
               => r.existingCompany = Least(Matching(r.form.companyEmail))
            /\ r.existingCompany # 0
               => /\ r.existingCompany = Least(Matching(r.form.companyEmail))
                  /\ r.companyId = r.existingCompany
                  /\ ~Issued(r, "companyCreate") /\ ~Issued(r, "metafieldsSet")
                  /\ r.pc \notin {"companyCreate", "metafield"}
                  /\ Result(r) => r.response.companyId = r.existingCompany

\* a run that reused the second company although the third matches as well
C1_Witness ==
    /\ Result(run["p1"])
    /\ run["p1"].existingCompany = 2
    /\ Matching(run["p1"].form.companyEmail) = {2, 3}
    /\ run["p1"].response.companyId = 2

\* every remote call of the run so far succeeded
AllSucceeded(r) == r.nominal /\ r.taxReply \in {"none", "ok"}

\* Scenario A: no customer and no company were found, address1 is given, and no
\* remote call was answered by a failure
ScenarioA(r) ==
    /\ Result(r)
    /\ AllSucceeded(r)
    /\ r.existingCustomer.id = 0
    /\ r.existingCompany = 0
    /\ NonBlank(r.form.address1)

\* C2 as stated: in scenario A there is one companyCreate with an inline contact,
\* the customer exists through that contact and no customerCreate is issued, the
\* address is assigned to the first location, and the response is success:true with
\* companyId and customerId populated.
C2_Original ==
    \A p \in Procs :
        LET r == run[p]
        IN  ScenarioA(r)
            => /\ Count(r.calls, "companyCreate") = 1
               /\ CompanyInput(r).companyContact = r.form.userEmail
               /\ EmailExists(r.form.userEmail)
               /\ ~Issued(r, "customerCreate")
               /\ Count(r.calls, "companyLocationAssignAddress") = 1
               /\ r.locationId = FirstLocation(r.companyId)
               /\ r.response.success
               /\ r.response.companyId # 0
               /\ r.response.customerId # 0

\* C2 (amended): in scenario A there is one companyCreate with an inline contact,
\* through which the customer exists; then one customerCreate is issued all the
\* same and is answered "Email has already been taken"; the address is assigned to
\* the first location; the response is success:true with companyId populated, and
\* customerId is populated exactly when the fallback search found the customer and
\* updated it (otherwise customerError is the email-taken message).
C2_ScenarioA ==
    \A p \in Procs :
        LET r == run[p]
        IN  /\ ( r.lastCall.op = "companyCreate" /\ r.existingCustomer.id = 0 )
               => r.lastCall.input.companyContact = r.form.userEmail
            /\ ScenarioA(r)
               => /\ Count(r.calls, "companyCreate") = 1
                  /\ CompanyInput(r).companyContact = r.form.userEmail
                  /\ EmailExists(r.form.userEmail)
                  /\ Count(r.calls, "customerCreate") = 1
                  /\ r.errorMessage = EmailTaken
                  /\ Count(r.calls, "companyLocationAssignAddress") = 1
                  /\ r.locationId = FirstLocation(r.companyId)
                  /\ r.response.success
                  /\ r.response.companyId = r.companyId /\ r.companyId # 0
                  /\ r.response.customerId # 0 <=> Issued(r, "customerUpdate")
                  /\ r.response.customerId # 0
                     => /\ r.response.customerId \in 1..Len(customers)
                        /\ SameEmail(customers[r.response.customerId].email, r.form.userEmail)
                        /\ r.response.customerError = NoError
                  /\ r.response.customerId = 0 => r.response.customerError = EmailTaken

\* scenario A ended with both ids, after customerCreate and the fallback update
C2_Witness ==
    /\ ScenarioA(run["p1"])
    /\ run["p1"].calls[Len(run["p1"].calls)] = "customerUpdate"
    /\ Issued(run["p1"], "customerCreate")
    /\ run["p1"].response.customerId # 0

\* the mutations of a trace that create or update a customer, create a company, or
\* link the two
LinkOps ==
    {"customerUpdate", "customerCreate", "companyCreate", "companyAssignCustomerAsContact",
     "companyAssignMainContact", "companyContactAssignRoles"}

\* Scenario B (variant with role assignment): the identity check found the customer,
\* the company is new, and every remote call succeeded
ScenarioB(r) ==
    /\ r.pc = "done"
    /\ r.variant = "resolver"
    /\ AllSucceeded(r)
    /\ r.existingCustomer.id # 0
    /\ r.existingCompany = 0

\* C3: in scenario B the run issues customerUpdate and never customerCreate, then
\* companyCreate without a companyContact, then companyAssignCustomerAsContact,
\* companyAssignMainContact and companyContactAssignRoles, in exactly that order.
C3_ScenarioB ==
    \A p \in Procs :
        LET r == run[p]
        IN  /\ ( r.lastCall.op = "companyCreate" /\ r.existingCustomer.id # 0 )
               => r.lastCall.input.companyContact = Omitted
            /\ ScenarioB(r)
               => /\ SelectSeq(r.calls, LAMBDA op : op \in LinkOps) =
                       <<"customerUpdate", "companyCreate", "companyAssignCustomerAsContact",
                         "companyAssignMainContact", "companyContactAssignRoles">>
                  /\ ~Issued(r, "customerCreate")
                  /\ Result(r)

\* scenario B ran to its end: the role assignment was the last call
C3_Witness ==
    /\ ScenarioB(run["p1"])
    /\ run["p1"].lastCall.op = "companyContactAssignRoles"
    /\ Issued(run["p1"], "customerUpdate")
    /\ run["p1"].response.customerId = run["p1"].existingCustomer.id

\* Scenario C: customerCreate was answered "Email has already been taken", the
\* fallback search found the customer with the submitted email, and the customerUpdate
\* that followed returned no userErrors (a company id having been obtained before)
ScenarioC(r) ==
    /\ r.pc = "done"
    /\ r.companyId # 0
    /\ r.errorMessage = EmailTaken
    /\ r.foundCustomer.id # 0
    /\ IsExactMatch(r.foundCustomer, r.form.userEmail)
    /\ r.calls[Len(r.calls)] \notin {"customerCreate", "SearchCustomerByEmail",
                                     "SearchCustomerByEmailPrefix", "GetAllRecentCustomers"}
    /\ r.customerId = r.foundCustomer.id

\* C4: in scenario C the final response has success:true, customerId equal to the
\* found customer's id, and customerError null.
C4_ScenarioC ==
    \A p \in Procs :
        LET r == run[p]
        IN  ScenarioC(r)
            => /\ Result(r)
               /\ r.response.success
               /\ r.response.customerId = r.foundCustomer.id
               /\ r.response.customerError = NoError

\* the customer messages a response may carry
CustomerMessages ==
    {NoError, EmailTaken, "GraphQL errors in customer creation"}
        \cup OtherCustomerErrors \cup UpdateErrors

\* the end of a run whose tax call was answered and whose other calls all succeeded
ScenarioD(r) ==
    (r.pc = "done" /\ r.taxReply # "none" /\ r.nominal)
    => /\ Result(r)
       /\ r.response.success
       /\ r.response.companyId # 0
       /\ r.response.customerError \in {NoError, EmailTaken}
       /\ r.response.customerError = NoError
          => /\ r.response.customerId # 0
             /\ r.response.message = <<"Company and customer created successfully!">>
       /\ r.response.customerError = EmailTaken
          => /\ r.foundCustomer.id = 0
             /\ r.response.message = <<"Company created successfully! Note: ", EmailTaken>>

CustomerMutations == {"customerCreate", "customerUpdate"}

\* a phone value is blank: null, empty or whitespace only
Blank(phone) == phone = NULL \/ trim(phone) = <<>>

\* C6: the phone of every customerCreate and customerUpdate input is the submitted
\* phone (trimmed) when that is not blank, and is left out otherwise, so no customer
\* mutation carries an empty or whitespace-only phone; a customerUpdate without a
\* phone leaves the customer's phone as it was, and no customer's phone is cleared.
C6_PhoneNeverBlanked ==
    [][\A p \in Procs :
         LET r == run'[p]
             input == r.lastCall.input
         IN  /\ ( r.calls # run[p].calls /\ r.lastCall.op \in CustomerMutations )
                => /\ input.phone = IF Blank(r.form.phone) THEN Omitted ELSE trim(r.form.phone)
                   /\ input.phone = Omitted \/ ~Blank(input.phone)
                   /\ ( r.lastCall.op = "customerUpdate" /\ input.phone = Omitted )
                      => customers'[input.id].phone = customers[input.id].phone
                   /\ ( r.lastCall.op = "customerUpdate" /\ input.phone # Omitted )
                      => customers'[input.id].phone \in {customers[input.id].phone, input.phone}
             /\ \A i \in 1..Len(customers) :
                  ~Blank(customers[i].phone) => ~Blank(customers'[i].phone)]_vars

\* a customer with a phone was updated by a submission with a whitespace-only phone
C6_Witness ==
    /\ run["p1"].lastCall.op = "customerUpdate"
    /\ run["p1"].form.phone = <<" ">>
    /\ run["p1"].existingCustomer.phone = <<"9">>
    /\ run["p1"].lastCall.input.phone = Omitted
    /\ customers[run["p1"].existingCustomer.id].phone = <<"9">>
    /\ run["p1"].nominal

\* the customer a customerUpdate of the run is about
UpdatedCustomer(r) == IF r.foundCustomer.id # 0 THEN r.foundCustomer ELSE r.existingCustomer

\* C7: in the variant that sends tags, the tags of every customerUpdate input (for
\* the customer of the identity check or of the fallback search) are the prior tags
\* followed by "wholesale" if it was missing: the union of the prior tags and
\* {"wholesale"}, every prior tag kept, "wholesale" present once.
C7_TagsUnion ==
    \A p \in Procs :
        LET r == run[p]
            prior == UpdatedCustomer(r).tags
            sent == r.lastCall.input.tags
        IN  ( r.lastCall.op = "customerUpdate" /\ r.variant = "resolver" )
            => /\ r.lastCall.input.id = UpdatedCustomer(r).id
               /\ Range(sent) = Range(prior) \cup {"wholesale"}
               /\ SubSeq(sent, 1, Len(prior)) = prior
               /\ Count(sent, "wholesale") = 1
               /\ Len(sent) = Cardinality(Range(sent))

\* the fallback updated a customer that had the tags wholesale and vip
C7_Witness ==
    /\ run["p1"].lastCall.op = "customerUpdate"
    /\ run["p1"].variant = "resolver"
    /\ run["p1"].foundCustomer.id # 0
    /\ run["p1"].foundCustomer.tags = <<"wholesale", "vip">>
    /\ run["p1"].lastCall.input.tags = <<"wholesale", "vip">>

AddressOps ==
    {"GetCompanyLocations", "companyLocationUpdate", "companyLocationAssignAddress",
     "companyLocationTaxSettingsUpdate"}

\* C8: when the submitted address1 is absent, empty or whitespace only, the run
\* issues none of GetCompanyLocations, companyLocationUpdate,
\* companyLocationAssignAddress and companyLocationTaxSettingsUpdate.
C8_NoAddressNoCalls ==
    \A p \in Procs :
        LET r == run[p]
        IN  r.form.address1 \in {NULL, <<>>, <<" ">>}
            => /\ \A op \in AddressOps : ~Issued(r, op)
               /\ r.pc \notin {"getLocation", "renameLocation", "assignAddress", "tax"}
               /\ r.locationId = 0

\* a run with a whitespace-only address1 ended with both ids
C8_Witness ==
    /\ Result(run["p1"])
    /\ run["p1"].form.address1 = <<" ">>
    /\ run["p1"].response.companyId # 0
    /\ run["p1"].response.customerId # 0

\* C9: once a company id has been obtained, the run ends with the result-form
\* response {success:true, companyId, ...}, whatever the later calls reply.
C9_NoAbortAfterCompany ==
    \A p \in Procs :
        LET r == run[p]
        IN  ( r.pc = "done" /\ r.companyId # 0 )
            => /\ Result(r)
               /\ r.response.success
               /\ r.response.companyId = r.companyId

\* C10: in the result-form response, success is true exactly when companyId is
\* present, whatever customerId and customerError are.
C10_SuccessIffCompany ==
    \A p \in Procs :
        LET r == run[p]
        IN  Result(r) => (r.response.success <=> r.response.companyId # 0)

\* success is reported although no customer id was obtained and an error is reported
C10_Witness ==
    /\ Result(run["p1"])
    /\ run["p1"].response.success
    /\ run["p1"].response.customerId = 0
    /\ run["p1"].response.customerError # NoError

\* the run has returned the error-form response
ErrorForm(r) == r.pc = "done" /\ r.response.kind = "error"

\* C11: whenever the action responds with the error form, no remote mutation of
\* the run has taken effect: the directory is as it was before the submission.
C11_ErrorMeansNoMutation ==
    \A p \in Procs :
        LET r == run[p]
        IN  ErrorForm(r)
            => /\ customers = r.before.customers
               /\ companies = r.before.companies

\* the run ended before the identity check: in shop or session resolution
EndedBeforeIdentity(r) == r.pc = "done" /\ r.form.userEmail = Unread

\* C12: when no shop can be determined from app-proxy authentication, the shop
\* parameter or form field, or the referrer, the action returns HTTP 400; when a
\* shop is determined but no offline session is found, it returns HTTP 401; in both
\* cases no Admin GraphQL call is issued.
C12_TenantErrors ==
    \A p \in Procs :
        LET r == run[p]
        IN  EndedBeforeIdentity(r)
            => /\ r.calls = <<>>
               /\ ErrorForm(r)
               /\ ResolvedShop(r.shopInputs) = <<>>
                  => r.response.status = 400 /\ r.response.error = "Shop parameter missing"
               /\ ResolvedShop(r.shopInputs) # <<>>
                  => /\ r.response.status = 401
                     /\ r.response.error = "App not installed for this shop"

\* C13: the first customer of the identity query is treated as the existing
\* customer only if its email equals the submitted user email, lower-cased and
\* trimmed.
C13_IdentityRevalidated ==
    \A p \in Procs :
        LET r == run[p]
        IN  r.existingCustomer.id # 0
            => toLowerCase(r.existingCustomer.email) = toLowerCase(trim(r.form.userEmail))

\* two company emails are equal up to letter case and surrounding whitespace
SameCompanyEmail(a, b) == a # NULL /\ toLowerCase(trim(a)) = toLowerCase(trim(b))

\* the companies query of the run has been answered with the companies
LookupAnswered(r) ==
    /\ Issued(r, "GetCompaniesByEmailMetafield")
    /\ r.lookups[Len(r.lookups)] = "ok"

\* what C14 says of a later submission r and of the company h, created with its
\* metafield by an earlier submission: no companyCreate, the same companyId, one
\* company for the email
Idempotent(r, h) ==
    ( /\ h.submission < r.submission
      /\ h.companyId <= CompaniesPage
      /\ LookupAnswered(r)
      /\ SameCompanyEmail(r.form.companyEmail, h.value) )
    => /\ r.existingCompany = h.companyId
       /\ r.companyId = h.companyId
       /\ ~Issued(r, "companyCreate")
       /\ Result(r) => r.response.companyId = h.companyId
       /\ Cardinality(Matching(h.value)) = 1

C15_NoInputValidation ==
    \A p \in Procs :
        LET r == run[p]
        IN  ( r.pc = "done" /\ ~EndedBeforeIdentity(r) )
            => Issued(r, "GetCustomerByEmail")

\* the mutations of the link step
ContactOps ==
    {"companyAssignCustomerAsContact", "companyAssignMainContact",
     "companyContactAssignRoles"}

\* the searches of the fallback
SearchOps == {"SearchCustomerByEmail", "SearchCustomerByEmailPrefix", "GetAllRecentCustomers"}

\* no edge of the reply is the submitted email's customer (and find does not throw)
NoExactMatch(edges, userEmail) ==
    \A k \in 1..Len(edges) : edges[k].email # NULL /\ ~IsExactMatch(edges[k], userEmail)

\* the latest call of the run is a customer creation that yielded no customer:
\* GraphQL errors, a userError other than email-taken, a fallback search whose
\* final reply holds no exact match, or userErrors of the fallback's update
NoCustomerYielded(r) ==
    \/ r.lastCall.op = "customerCreate" /\ r.lastCall.reply \in {"errors", "userErrors"}
    \/ /\ r.lastCall.op \in SearchOps
       /\ r.lastCall.reply \in {"edges", "errors"}
       /\ r.lastCall.op # "GetAllRecentCustomers" => r.lastCall.edges # <<>>
       /\ NoExactMatch(r.lastCall.edges, r.form.userEmail)
    \/ /\ r.lastCall.op = "customerUpdate"
       /\ r.foundCustomer.id # 0
       /\ r.lastCall.reply = "userErrors"

\* C16: when customer creation yields no customer (GraphQL errors, another
\* userError, a fallback without an exact match, userErrors of the fallback's
\* update) the run is not aborted: customerId stays null, customerError is set,
\* no contact, main-contact or role mutation is issued, and, the company id
\* existing, the response is success: true with the message "Company created
\* successfully! Note: <customerError>".
C16_CustomerFailureTolerated ==
    \A p \in Procs :
        LET r == run[p]
        IN  NoCustomerYielded(r)
            => /\ Result(r)
               /\ r.customerId = 0
               /\ r.customerError # NoError
               /\ \A op \in ContactOps : ~Issued(r, op)
               /\ r.response.customerId = 0
               /\ r.response.customerError = r.customerError
               /\ r.companyId # 0
                    => /\ r.response.success = TRUE
                       /\ r.response.companyId = r.companyId
                       /\ r.response.message =
                              <<"Company created successfully! Note: ", r.customerError>>

\* each of the four cases has happened
C16_WitnessCase(r, op, reply) ==
    NoCustomerYielded(r) /\ r.lastCall.op = op /\ r.lastCall.reply = reply /\ Result(r)

C16_Witness ==
    /\ run["p1"].pc = "done"
    /\ run["p1"].foundCustomer.id # 0
    /\ C16_WitnessCase(run["p1"], "customerUpdate", "userErrors")
    /\ run["p1"].companyId # 0
    /\ run["p1"].response.message = <<"Company created successfully! Note: ", "Phone is invalid">>

\* the directory holds a customer whose email equals the submitted one
\* (case-insensitive, trimmed)
DirectoryHolds(userEmail) ==
    \E i \in 1..Len(customers) :
        customers[i].email # NULL /\ IsExactMatch(CustomerNode(i), userEmail)

\* the fallback search of the run has ended with an answered search
SearchEnded(r) ==
    /\ r.lastCall.op \in SearchOps
    /\ r.lastCall.reply = "edges"
    /\ r.pc \notin {"fallback2", "fallback3"}
    /\ \A k \in 1..Len(r.lastCall.edges) : r.lastCall.edges[k].email # NULL

\* C17: fallback completeness: whenever customerCreate failed with "Email has
\* already been taken" and the directory holds a customer whose email equals the
\* submitted one, the fallback search, once its last search is answered, has
\* located that customer and the run goes on to update it - also when tier 1 or
\* tier 2 returned only non-matching customers.
C17_FallbackComplete ==
    \A p \in Procs :
        LET r == run[p]
        IN  (r.errorMessage = EmailTaken /\ SearchEnded(r) /\ DirectoryHolds(r.form.userEmail))
            => /\ r.pc = "fallbackUpdate"
               /\ r.foundCustomer.id # 0
               /\ IsExactMatch(r.foundCustomer, r.form.userEmail)

\* the step issues the call op
NewCall(p, op) ==
    /\ Len(run'[p].calls) = Len(run[p].calls) + 1
    /\ run'[p].lastCall.op = op

\* the search returned zero results (an empty list, or no data at all)
ZeroResults(call) == call.reply \in {"edges", "errors"} /\ call.edges = <<>>

\* C18: fallback ordering: the first search directly follows a customerCreate
\* answered with the userError "Email has already been taken"; the email:-prefixed
\* search directly follows an exact-email search with zero results, and the
\* recent-customers scan directly follows a prefixed search with zero results
\* (itself preceded by the exact-email search); and the customer the fallback
\* updates has an email equal to the submitted one (case-insensitive, trimmed).
C18_FallbackOrdering ==
    [][\A p \in Procs :
         LET r == run[p]
             n == Len(r.calls)
         IN  /\ NewCall(p, "SearchCustomerByEmail")
                  => /\ r.lastCall.op = "customerCreate"
                     /\ r.lastCall.reply = "emailTaken"
                     /\ includesEmailTaken(r.errorMessage)
                     /\ \A op \in SearchOps : ~Issued(r, op)
             /\ NewCall(p, "SearchCustomerByEmailPrefix")
                  => /\ r.lastCall.op = "SearchCustomerByEmail"
                     /\ ZeroResults(r.lastCall)
             /\ NewCall(p, "GetAllRecentCustomers")
                  => /\ r.lastCall.op = "SearchCustomerByEmailPrefix"
                     /\ ZeroResults(r.lastCall)
                     /\ r.calls[n - 1] = "SearchCustomerByEmail"
             /\ (NewCall(p, "customerUpdate") /\ Issued(r, "customerCreate"))
                  => /\ r.lastCall.op \in SearchOps
                     /\ run'[p].lastCall.input.id # 0
                     /\ run'[p].lastCall.input.id = r.foundCustomer.id
                     /\ IsExactMatch(CustomerNode(r.foundCustomer.id), r.form.userEmail)
    ]_vars

\* all three tiers were queried and the customer found by the scan was updated
C18_Witness ==
    LET r == run["p1"]
        n == Len(r.calls)
    IN  /\ n >= 5
        /\ r.calls[n] = "customerUpdate"
        /\ r.calls[n - 1] = "GetAllRecentCustomers"
        /\ r.calls[n - 2] = "SearchCustomerByEmailPrefix"
        /\ r.calls[n - 3] = "SearchCustomerByEmail"
        /\ r.calls[n - 4] = "customerCreate"
        /\ r.lastCall.reply = "ok"
        /\ r.customerId = r.foundCustomer.id

\* the run linked a customer the identity check found (branch 3a), in the variant
\* with role assignment
Linked3a(r) ==
    /\ r.variant = "resolver"
    /\ r.existingCustomer.id # 0
    /\ Issued(r, "companyAssignCustomerAsContact")

\* C19 as stated: in the link step for a pre-existing customer no failure stops
\* the later steps: once companyAssignCustomerAsContact was issued, a run that
\* returns its result has attempted companyAssignMainContact and the role
\* assignment (which starts with the GetLocationRoles query).
C19_Original ==
    \A p \in Procs :
        LET r == run[p]
        IN  (Result(r) /\ Linked3a(r))
            => /\ Issued(r, "companyAssignMainContact")
               /\ Issued(r, "GetLocationRoles")

\* C19, amended: a companyAssignCustomerAsContact reply without a contact id ends
\* the link step - neither companyAssignMainContact nor the role assignment is
\* attempted - and the run returns its result; whatever the reply of
\* companyAssignMainContact, the role assignment is attempted after it.
C19_LinkStepAfterFailure ==
    \A p \in Procs :
        LET r == run[p]
        IN  Linked3a(r)
            => /\ (r.lastCall.op = "companyAssignCustomerAsContact"
                     /\ r.lastCall.reply = "userErrors")
                    => /\ Result(r)
                       /\ ~Issued(r, "companyAssignMainContact")
                       /\ ~Issued(r, "GetLocationRoles")
                       /\ ~Issued(r, "companyContactAssignRoles")
               /\ (r.lastCall.op = "companyAssignMainContact"
                     /\ r.lastCall.reply \in {"ok", "userErrors"})
                    => r.pc = "getLocationRoles"
               /\ (Result(r) /\ Issued(r, "companyAssignMainContact"))
                    => Issued(r, "GetLocationRoles")

\* the contact assignment was answered with userErrors and the run has returned
C19_Witness ==
    /\ Linked3a(run["p1"])
    /\ run["p1"].lastCall.op = "companyAssignCustomerAsContact"
    /\ run["p1"].lastCall.reply = "userErrors"
    /\ Result(run["p1"])

\* the mutations whose userErrors the claim lists
UserErrorOps ==
    {"customerUpdate", "metafieldsSet", "companyLocationUpdate",
     "companyLocationAssignAddress", "companyAssignCustomerAsContact",
     "companyAssignMainContact", "companyContactAssignRoles"}

\* C20: every userErrors reply of a mutation of the run (customerUpdate of the
\* existing customer, metafieldsSet, companyLocationUpdate,
\* companyLocationAssignAddress, companyAssignCustomerAsContact,
\* companyAssignMainContact, companyContactAssignRoles) is captured by the step
\* that receives it, and a response returned by that step carries it in its
\* customerError (and so in its message).
C20_UserErrorsSurface ==
    [][\A p \in Procs :
         ((\E op \in UserErrorOps :
              NewCall(p, op) /\ (op = "customerUpdate" => ~Issued(run[p], "customerCreate")))
            /\ run'[p].lastCall.reply = "userErrors")
         => /\ run'[p].customerError # NoError
            /\ Result(run'[p]) => run'[p].response.customerError # NoError
    ]_vars

\* the indexes of the roles whose lower-cased name contains the word
Named(roles, word) ==
    {k \in 1..Len(roles) : includesString(toLowerCase(roles[k].name), word)}

\* the role the preference order asks for; 0 when there is none
PreferredRole(catalog) ==
    LET roles == catalog.nodes
    IN  IF catalog.defaultRole.id # 0 THEN catalog.defaultRole.id
        ELSE IF Named(roles, buyer) # {} THEN roles[Least(Named(roles, buyer))].id
        ELSE IF Named(roles, admin) # {} THEN roles[Least(Named(roles, admin))].id
        ELSE IF Len(roles) > 0 THEN roles[1].id
        ELSE 0

\* C21: role selection preference: after the roles of the company were returned,
\* the role assigned is the default role when there is one, otherwise the first
\* role named "buyer", otherwise the first named "admin", otherwise the first of
\* the list; without a default role and with an empty list the run ends without
\* a companyContactAssignRoles.
C21_RolePreference ==
    /\ \A p \in Procs :
         LET r == run[p]
         IN  (r.lastCall.op = "GetCompanyRoles" /\ r.lastCall.reply = "ok")
             => IF PreferredRole(r.lastCall.catalog) = 0
                THEN r.pc = "done" /\ ~Issued(r, "companyContactAssignRoles")
                ELSE r.pc = "assignRole"
                     /\ r.roleIdToAssign = PreferredRole(r.lastCall.catalog)
    /\ \A p \in Procs :
         LET r == run[p]
         IN  r.lastCall.op = "companyContactAssignRoles"
             => /\ r.lastCall.roleId = r.roleIdToAssign
                /\ r.roleIdToAssign # 0
                /\ Count(r.calls, "companyContactAssignRoles") = 1

\* a buyer role that is neither the first role nor the first match by letter
\* case was assigned, an admin role standing before it
C21_Witness ==
    /\ run["p1"].lastCall.op = "companyContactAssignRoles"
    /\ run["p1"].lastCall.roleId = 3
    /\ run["p1"].lastCall.reply = "ok"
    /\ run["p1"].pc = "done"

\* the run reused a company: it has a company id without having created a company
Reused(r) == r.companyId # 0 /\ ~Issued(r, "companyCreate")

\* C22: at the end of a run whose customer the identity check did not resolve,
\* companyAssignCustomerAsContact was issued (once) exactly when both ids are
\* present and the company was reused, and neither the main contact nor a role
\* was assigned; with a company created in this run no contact, main-contact or
\* role mutation was issued.
C22_ExplicitLinkOnlyOnReuse ==
    \A p \in Procs :
        LET r == run[p]
        IN  (r.pc = "done" /\ Issued(r, "GetCustomerByEmail") /\ r.existingCustomer.id = 0)
            => /\ Issued(r, "companyAssignCustomerAsContact")
                    <=> (r.customerId # 0 /\ Reused(r))
               /\ Count(r.calls, "companyAssignCustomerAsContact") <= 1
               /\ ~Issued(r, "companyAssignMainContact")
               /\ ~Issued(r, "companyContactAssignRoles")
               /\ Issued(r, "companyCreate") => \A op \in ContactOps : ~Issued(r, op)

\* a created customer was assigned to a reused company
C22_Witness ==
    /\ Result(run["p1"])
    /\ run["p1"].existingCustomer.id = 0
    /\ Issued(run["p1"], "customerCreate")
    /\ Reused(run["p1"])
    /\ run["p1"].lastCall.op = "companyAssignCustomerAsContact"
    /\ run["p1"].lastCall.reply = "ok"

\* C23: country default: whenever companyLocationAssignAddress is issued and the
\* submitted country is blank (absent, empty or whitespace only), the countryCode
\* sent is "IN"; an omitted city or zip is sent as the empty string.
C23_CountryDefault ==
    \A p \in Procs :
        LET call == run[p].lastCall
        IN  call.op = "companyLocationAssignAddress"
            => /\ Blank(call.country) => call.address.countryCode = <<"I", "N">>
               /\ call.city = NULL => call.address.city = <<>>
               /\ call.zipCode = NULL => call.address.zip = <<>>

\* the remote mutations of the workflow
RemoteMutations ==
    {"companyCreate", "metafieldsSet", "customerCreate", "customerUpdate",
     "companyLocationUpdate", "companyLocationAssignAddress",
     "companyLocationTaxSettingsUpdate", "companyAssignCustomerAsContact",
     "companyAssignMainContact", "companyContactAssignRoles"}

\* C24: no retry: within one submission each kind of remote mutation is issued at
\* most once, whatever the replies; after an email-taken error each of the
\* fallback searches is issued at most once as well.
C24_NoRetry ==
    \A p \in Procs :
        \A op \in RemoteMutations \cup SearchOps : Count(run[p].calls, op) <= 1

\* a run with failed replies that issued seven kinds of mutation and has ended
C24_Witness ==
    LET r == run["p1"]
    IN  /\ r.pc = "done"
        /\ ~r.nominal
        /\ Cardinality({op \in RemoteMutations : Issued(r, op)}) >= 7
        /\ r.lastCall.reply = "userErrors"

\* every call of the run was answered, and no reply was a failure other than the
\* refusal of a companyCreate whose contact email a customer already has
OnlyTakenRefused(r) ==
    /\ \A k \in 1..Len(r.lookups) : r.lookups[k] = "ok"
    /\ \/ r.nominal
       \/ /\ r.lastCall.op = "companyCreate"
          /\ r.lastCall.reply = "userErrors"
          /\ EmailExists(r.lastCall.input.companyContact)

\* C25: two runs with the same previously-unknown user email that both passed the
\* identity check before either created anything both end with the result-form
\* response, both return the id of the same single customer, and both have
\* customerError null.
C25_ConcurrentSameEmail ==
    (/\ SameEmail(run["p1"].form.userEmail, run["p2"].form.userEmail)
     /\ \A p \in Procs : run[p].pc = "done" /\ OnlyTakenRefused(run[p]))
    => /\ \A p \in Procs :
            /\ Result(run[p])
            /\ run[p].response.customerError = NoError
            /\ run[p].response.customerId # 0
       /\ run["p1"].response.customerId = run["p2"].response.customerId
       /\ Cardinality({i \in 1..Len(customers) :
                          SameEmail(customers[i].email, run["p1"].form.userEmail)}) = 1

\* the run looked its company email up, was answered that no company carries it,
\* and then created a company and wrote the metafield on it
CreatedUnseen(r) ==
    /\ r.lookups = <<"ok">>
    /\ r.existingCompany = 0
    /\ Issued(r, "companyCreate") /\ r.companyId # 0
    /\ Len(r.written) = 1 /\ r.written[1].companyId = r.companyId

\* the values of the custom/companyEmail metafields of a company
EmailValues(companyId) ==
    {companies[companyId].metafields[k].value :
        k \in {j \in 1..Len(companies[companyId].metafields) :
                 /\ companies[companyId].metafields[j].namespace = "custom"
                 /\ companies[companyId].metafields[j].key = "companyEmail"}}

\* C26: company creation is not protected against races: when two concurrent
\* submissions with the same company email both complete the company lookup
\* before either has written, and each then creates a company and writes its
\* metafield, two distinct companies carry the same companyEmail metafield value.
C26_DuplicateCompanies ==
    (/\ SameCompanyEmail(run["p1"].form.companyEmail, run["p2"].form.companyEmail)
     /\ \A p \in Procs : CreatedUnseen(run[p]))
    => /\ run["p1"].companyId # run["p2"].companyId
       /\ EmailValues(run["p1"].companyId) = {trim(run["p1"].form.companyEmail)}
       /\ EmailValues(run["p2"].companyId) = EmailValues(run["p1"].companyId)

\* both runs have created their company unseen by the other and have returned success
C26_Witness ==
    /\ SameCompanyEmail(run["p1"].form.companyEmail, run["p2"].form.companyEmail)
    /\ run["p1"].form.companyEmail # run["p2"].form.companyEmail
    /\ \A p \in Procs : CreatedUnseen(run[p]) /\ Result(run[p]) /\ run[p].response.success
    /\ run["p1"].companyId # run["p2"].companyId
    /\ Len(companies) = 2

\* C27: in every result-form response customerId and customerError are never
\* both non-null, in the run and in the response; and whenever customerId is
\* non-null (and there is a company id) the message is "Company and customer
\* created successfully!".
C27_IdOrErrorNotBoth ==
    \A p \in Procs :
        LET r == run[p]
        IN  Result(r)
            => /\ ~(r.customerId # 0 /\ r.customerError # NoError)
               /\ ~(r.response.customerId # 0 /\ r.response.customerError # NoError)
               /\ (r.response.customerId # 0 /\ r.response.companyId # 0)
                    => r.response.message = <<"Company and customer created successfully!">>

\* the fallback's update was refused: a customer was found, but the response
\* carries the error and no customer id
C27_Witness ==
    /\ Result(run["p1"])
    /\ run["p1"].foundCustomer.id # 0
    /\ run["p1"].lastCall.op = "customerUpdate"
    /\ run["p1"].lastCall.reply = "userErrors"
    /\ run["p1"].response.customerId = 0
    /\ run["p1"].response.customerError = "Phone is invalid"

\* the form field was read and is not blank
Submitted(field) == field # Unread /\ NonBlank(field)

\* C28: reusing a company does not leave it unchanged: a run that resolved to an
\* existing company creates no company and writes no metafield, but with a
\* non-blank address1 it queries that company's locations, renames the first
\* location to the submitted label (if not blank), assigns the submitted address
\* to it and sets the submitted tax id on it.
C28_ReusedCompanyIsChanged ==
    \A p \in Procs :
        LET r == run[p]
            call == r.lastCall
            location == FirstLocation(r.existingCompany)
        IN  (r.existingCompany # 0 /\ Reused(r))
            => /\ ~Issued(r, "metafieldsSet")
               /\ r.companyId = r.existingCompany
               /\ Result(r) => r.form.address1 # Unread
               /\ Submitted(r.form.address1)
                    => r.pc = "getLocation" \/ Issued(r, "GetCompanyLocations")
               /\ call.op = "GetCompanyLocations" => call.companyId = r.existingCompany
               /\ Submitted(r.form.location)
                    => r.pc = "renameLocation" \/ Issued(r, "companyLocationUpdate")
               /\ call.op = "companyLocationUpdate"
                    => /\ call.companyLocationId = location
                       /\ call.name = trim(r.form.location)
               /\ call.op = "companyLocationAssignAddress"
                    => /\ call.locationId = location
                       /\ call.address.address1 = trim(r.form.address1)
               /\ Submitted(r.form.taxId)
                    => r.pc = "tax" \/ Issued(r, "companyLocationTaxSettingsUpdate")
               /\ call.op = "companyLocationTaxSettingsUpdate"
                    => /\ call.companyLocationId = location
                       /\ call.taxRegistrationId = trim(r.form.taxId)
                       /\ Issued(r, "companyLocationAssignAddress")

\* a run that reused a company has renamed its first location, assigned the
\* address and set the tax id, and has returned
C28_Witness ==
    LET r == run["p1"]
    IN  /\ Result(r)
        /\ r.existingCompany # 0 /\ Reused(r)
        /\ Issued(r, "companyLocationUpdate")
        /\ Issued(r, "companyLocationAssignAddress")
        /\ r.taxReply = "ok"
        /\ r.nominal

\* the pages titled "Wholesale Registration"
WholesalePages == {i \in 1..Len(pages) : pages[i].title = WholesaleRegistration}

\* the "Wholesale Registration" items of a menu
WholesaleItems(menu) == {k \in 1..Len(menu.items) : menu.items[k] = WholesaleRegistration}

\* the mutations of the loader
SetupMutations == {"pageCreate", "menuUpdate", "menuCreate"}

\* what the claim says of the loader's invocations so far
SetupIdempotent(r) ==
    /\ r.created <= 1
    /\ Cardinality(WholesalePages) <= 1
    /\ \A m \in 1..Len(menus) :
         IsMainMenu(menus[m]) => Cardinality(WholesaleItems(menus[m])) <= 1
    /\ r.existed => \A op \in SetupMutations : ~Issued(r, op)

Completed(r) == r.answer.kind # "none"

\* C30: every submission that passes validateForm ends, whatever the status and
\* body of the answer and also when the request fails, with a toast of type
\* success, the form reset and the submit button enabled; the button is disabled
\* exactly while the request is in flight, and only valid forms are sent.
C30_AlwaysSuccess ==
    LET r == run["p1"]
    IN  /\ r.disabled <=> r.pc = "sent"
        /\ r.pc = "sent" => validateForm(r.sent) /\ ~Completed(r)
        /\ Completed(r) =>
             /\ r.pc = "done"
             /\ validateForm(r.sent)
             /\ r.toast.type = "success"
             /\ r.fields = ResetFields
             /\ ~r.disabled

\* a valid submission was answered with status 500 and the error form, and the
\* page shows the success toast over the reset form
C30_Witness ==
    LET r == run["p1"]
    IN  /\ r.answer.kind = "response"
        /\ r.answer.status = 500 /\ r.answer.body = "error"
        /\ r.toast.type = "success" /\ r.fields = ResetFields /\ ~r.disabled
        /\ trim(r.sent.companyName) = <<"A", "c">>

====
